---------------------------- MODULE Spec2Model ----------------------------
(***************************************************************************)
(* Model of the migration engine of hamdyyemad/use-learn:                  *)
(*   MigrationRunner (migrations/engine/orchestrator/migration-runner.js)  *)
(*   SupabaseDatabaseAdapter (engine/adapters/supabase-adapter.js)         *)
(*   executeMigrationWorkflow (engine/index.js), main (run-migrations.js)  *)
(*   errorHandler (exceptions/error-handler.js)                            *)
(* One runner process at a time works on one database; a behaviour is a    *)
(* sequence of run() invocations, in the same process or in later ones.    *)
(***************************************************************************)
EXTENDS Integers, Sequences, FiniteSets, TLC

(***************************************************************************)
(* Bounds of the model.                                                    *)
(***************************************************************************)
\* largest number of entries of the migrations directory
MaxFiles == 3
\* largest number of migration files whose SQL is invalid
MaxInvalid == 1
\* largest number of run() invocations in one behaviour
MaxRuns == 2
\* largest number of records the tracking table holds before the first run
MaxRecords == 2
\* largest number of AdapterFactory.create calls in one behaviour
MaxCreates == 3
\* largest number of calls made on one adapter by hand
MaxCalls == 4

(***************************************************************************)
(* File names.  A name is a string; Chars gives its UTF-16 code units,     *)
(* which is what endsWith, startsWith and Array.prototype.sort look at.    *)
(***************************************************************************)
BOOTSTRAP == "000_migrations_table.sql"

Chars ==
    "000_migrations_table.sql" :> <<48, 48, 48, 95, 109, 105, 103, 114, 97, 116, 105, 111, 110, 115, 95, 116, 97, 98, 108, 101, 46, 115, 113, 108>> @@
    "000_a.sql" :> <<48, 48, 48, 95, 97, 46, 115, 113, 108>> @@
    "001_a.sql" :> <<48, 48, 49, 95, 97, 46, 115, 113, 108>> @@
    "002_b.sql" :> <<48, 48, 50, 95, 98, 46, 115, 113, 108>> @@
    "_draft.sql" :> <<95, 100, 114, 97, 102, 116, 46, 115, 113, 108>> @@
    "notes.txt" :> <<110, 111, 116, 101, 115, 46, 116, 120, 116>>

\* the names a directory entry can have in this model
Names == DOMAIN Chars

\* '.sql' and '_' as code units
SqlExt == <<46, 115, 113, 108>>
PrivateMarker == <<95>>

\* String.prototype.endsWith
EndsWith(s, suffix) ==
    /\ Len(s) >= Len(suffix)
    /\ SubSeq(s, Len(s) - Len(suffix) + 1, Len(s)) = suffix

\* String.prototype.startsWith
StartsWith(s, prefix) ==
    /\ Len(s) >= Len(prefix)
    /\ SubSeq(s, 1, Len(prefix)) = prefix

\* s < t in the order of Array.prototype.sort without a comparator:
\* code unit by code unit, a proper prefix first
RECURSIVE CodeUnitsLess(_, _)
CodeUnitsLess(s, t) ==
    IF t = <<>> THEN FALSE
    ELSE IF s = <<>> THEN TRUE
    ELSE IF Head(s) # Head(t) THEN Head(s) < Head(t)
    ELSE CodeUnitsLess(Tail(s), Tail(t))

NameLess(a, b) == CodeUnitsLess(Chars[a], Chars[b])

\* (variant: the private marker is not looked at)
IsMigrationFileM1(file) == EndsWith(Chars[file], SqlExt)

\* the filter of getMigrationFiles
IsMigrationFile(file) ==
    EndsWith(Chars[file], SqlExt) /\ ~StartsWith(Chars[file], PrivateMarker)

RECURSIVE FilterFiles(_)
FilterFiles(entries) ==
    IF entries = <<>> THEN <<>>
    ELSE IF IsMigrationFile(Head(entries))
         THEN <<Head(entries)>> \o FilterFiles(Tail(entries))
         ELSE FilterFiles(Tail(entries))

\* insertion of one name into a sorted sequence
RECURSIVE InsertSorted(_, _)
InsertSorted(name, sorted) ==
    IF sorted = <<>> THEN <<name>>
    ELSE IF NameLess(Head(sorted), name)
         THEN <<Head(sorted)>> \o InsertSorted(name, Tail(sorted))
         ELSE <<name>> \o sorted

\* Array.prototype.sort() on file names
\* (variant: the listing left in enumeration order)
SortFilesM1(fileSeq) == fileSeq
RECURSIVE SortFiles(_)
SortFiles(fileSeq) ==
    IF fileSeq = <<>> THEN <<>>
    ELSE InsertSorted(Head(fileSeq), SortFiles(Tail(fileSeq)))

\* MigrationRunner.getMigrationFiles on the entries readdirSync returned
getMigrationFiles(entries) == SortFiles(FilterFiles(entries))

Range(s) == {s[i] : i \in DOMAIN s}


(***************************************************************************)
(* State.                                                                  *)
(***************************************************************************)
VARIABLES
    \* the migration source: the directory exists, what readdirSync returns,
    \* in its order, and the files whose SQL the backend rejects
    dirExists, dirEntries, invalid,
    \* the target database: the tracking relation exists, its rows, and per
    \* file how many times its SQL has been applied (its visible effects)
    table, rows, schema,
    \* SupabaseDatabaseAdapter.sql: "null" or "client"
    sql,
    \* the open or last transaction of sql.begin
    tx,
    \* the process: its position, the locals of run(), what it gave back
    pc, ret, files, executedSet, idx, executedCount, skippedCount,
    result, error, stderr, exitCode,
    \* history of the current run() (not read by the program)
    runs, runLog, atStart, examined, skippedFiles, completed, afterSuccess,
    faults, failedFile,
    \* history: the calls run() and cleanup() made on the adapter and on the
    \* directory, with what each gave back, and the clients the adapter made
    calls, opened,
    \* what lies beside the one runner: what an operator did, once, to the
    \* tracking table or to the running process
    operator,
    \* two further runner instances at the same database and source, each
    \* with the locals of its run() and of its open transaction
    runners,
    \* the calls of AdapterFactory.create so far: arguments and adapter
    creations,
    \* the replaced script subapase/run-migrations.js, run on a copy of the
    \* database as it was when the current run() began
    legacy

sideVars == <<operator, runners, creations, legacy>>
srcVars == <<dirExists, dirEntries, invalid>>
dbVars == <<table, rows, schema>>
localVars == <<ret, files, executedSet, executedCount, skippedCount>>
outVars == <<result, exitCode>>
histVars == <<runs, atStart, completed, afterSuccess>>
vars == <<dirExists, dirEntries, invalid, table, rows, schema, sql, tx, pc, ret, files,
          executedSet, idx, executedCount, skippedCount, result, error,
          stderr, exitCode, runs, runLog, atStart, examined, skippedFiles,
          completed, afterSuccess, faults, failedFile, calls, opened,
          operator, runners, creations, legacy>>

NoFile == "(none)"
NoTx == [state |-> "none"]
NoResult == [executed |-> -1, skipped |-> -1]
NoError == [message |-> "", migration |-> NoFile]
NoCode == 0 - 1
NoOperator == [op |-> "none", name |-> NoFile]

\* the runner instances of the concurrent runs, and one before its run()
Instances == {"A", "B"}
IdleRunner ==
    [pc |-> "idle", executedSet |-> {}, idx |-> 0, executedCount |-> 0,
     skippedCount |-> 0, file |-> NoFile, inserts |-> FALSE, committed |-> {},
     skipped |-> {}, failed |-> NoFile, result |-> NoResult]

\* the replaced script before it is started
IdleLegacy ==
    [pc |-> "idle", run |-> 0, table |-> FALSE, rows |-> {},
     schema |-> [n \in {} |-> 0], files |-> <<>>, idx |-> 0,
     executedCount |-> 0, skippedCount |-> 0, log |-> <<>>,
     checkFails |-> FALSE, result |-> NoResult, exitCode |-> NoCode]

\* messages of the errors the backend raises
UndefinedTable == "relation \"public.schema_migrations\" does not exist"
UnknownStatement == "prepared statement does not exist"
DuplicateTable == "relation \"schema_migrations\" already exists"
SyntaxError == "syntax error"
ConnectionLost == "connection lost"

\* one entry of the history of calls
Call(op, reply) == [op |-> op, reply |-> reply]

\* (variant: no message is taken for a missing tracking relation)
IncludesDoesNotExistM1(message) == FALSE

\* error.message.includes('does not exist') on those messages
IncludesDoesNotExist(message) == message \in {UndefinedTable, UnknownStatement}

\* an error as the backend raises it: it knows no migration file
BackendError(message) == [message |-> message, migration |-> NoFile]

\* the sequences of at most n distinct entries a directory listing can be
Listings(n) ==
    UNION {{s \in [1..k -> Names] : \A i, j \in 1..k : i # j => s[i] # s[j]}
           : k \in 0..n}

MigrationNames(entries) == {f \in Range(entries) : IsMigrationFile(f)}

RecordedNames(rowSet) == {r.migration_name : r \in rowSet}

Init ==
    /\ dirExists \in BOOLEAN
    /\ dirEntries \in IF dirExists THEN Listings(MaxFiles) ELSE {<<>>}
    /\ invalid \in {b \in SUBSET MigrationNames(dirEntries) :
                        Cardinality(b) <= MaxInvalid}
    /\ table \in BOOLEAN
    /\ rows = {}
    /\ schema = [n \in Names |-> 0]
    /\ sql = "null"
    /\ tx = NoTx
    /\ pc = "idle"
    /\ ret = "discover"
    /\ files = <<>>
    /\ executedSet = {}
    /\ idx = 0
    /\ executedCount = 0
    /\ skippedCount = 0
    /\ result = NoResult
    /\ error = NoError
    /\ stderr = <<>>
    /\ exitCode = NoCode
    /\ runs = 0
    /\ runLog = <<>>
    /\ atStart = [table |-> table, rows |-> {}, schema |-> schema]
    /\ examined = {}
    /\ skippedFiles = {}
    /\ completed = FALSE
    /\ afterSuccess = FALSE
    /\ faults = 0
    /\ failedFile = NoFile
    /\ calls = <<>>
    /\ opened = 0
    /\ operator = NoOperator
    /\ runners = [p \in Instances |-> IdleRunner]
    /\ creations = <<>>
    /\ legacy = IdleLegacy

(***************************************************************************)
(* The adapter (supabase-adapter.js) as functions of the database state.   *)
(***************************************************************************)
\* (variant: every connect() makes a client of its own)
connectM1(client) == IF client = "client" THEN "client2" ELSE "client"

\* connect(): an existing client is kept
connect(client) == IF client # "null" THEN client ELSE "client"

\* disconnect(): sql.end() and forget the client
\* (variant: the client is ended and kept)
disconnectM1(client) == client
disconnect(client) == "null"

\* testConnection(): false without a client, else SELECT 1 inside try/catch
\* (variant: no try/catch around the round trip)
testConnectionM1(client, roundTrip) ==
    IF client = "null" THEN "false"
    ELSE IF roundTrip THEN "true" ELSE "throws"
testConnection(client, roundTrip) ==
    IF client = "null" THEN "false"
    ELSE IF roundTrip THEN "true" ELSE "false"

\* max: 1, the connections one client may hold
PoolSize == 1

\* what sql.unsafe(fileContent) raises for the SQL of `file`, "" if nothing
RawSqlError(file, tableExists, bad) ==
    IF file \in bad THEN SyntaxError
    ELSE IF file = BOOTSTRAP /\ tableExists THEN DuplicateTable
    ELSE ""

\* the effects of the SQL of `file` on the schema
ApplySql(file, sch) == [sch EXCEPT ![file] = @ + 1]

\* INSERT INTO public.schema_migrations (migration_name) VALUES (name)
\* ON CONFLICT (migration_name) DO NOTHING, executed_at defaulting to now
\* (variant: the insert left out)
insertMigrationRecordM1(rowSet, name, now) == rowSet
\* (variant: ON CONFLICT (migration_name) DO UPDATE SET executed_at = NOW())
insertMigrationRecordM2(rowSet, name, now) ==
    {r \in rowSet : r.migration_name # name}
        \cup {[migration_name |-> name, executed_at |-> now]}
\* (variant: a plain INSERT into a table without the unique constraint)
insertMigrationRecordM3(rowSet, name, now) ==
    rowSet \cup {[migration_name |-> name, executed_at |-> now]}
insertMigrationRecord(rowSet, name, now) ==
    IF name \in RecordedNames(rowSet) THEN rowSet
    ELSE rowSet \cup {[migration_name |-> name, executed_at |-> now]}

\* SELECT migration_name FROM public.schema_migrations
\* WHERE migration_name = ANY(migrationNames), as a Set
\* (variant: the query finds nothing)
SelectExecutedM1(rowSet, migrationNames) == {}
\* (variant: the query has no WHERE clause)
SelectExecutedM2(rowSet, migrationNames) == {r.migration_name : r \in rowSet}
SelectExecuted(rowSet, migrationNames) ==
    {r.migration_name : r \in {q \in rowSet : q.migration_name \in migrationNames}}

\* what the batch query can answer: the rows, or an error of the backend
QueryReplies(tableExists) ==
    (IF tableExists THEN {"rows"} ELSE {UndefinedTable})
        \cup {UnknownStatement, ConnectionLost}

\* ROLLBACK: the database as it was at BEGIN
\* (variant: the changes of the failed transaction stay)
RollbackM1(snapshot, current) == current
Rollback(snapshot, current) ==
    [table |-> snapshot.table, rows |-> snapshot.rows, schema |-> snapshot.schema]

(***************************************************************************)
(* MigrationRunner.                                                        *)
(***************************************************************************)
\* shouldSkipMigration, given what tableExists answered
\* (variant: no special case for the bootstrap file)
shouldSkipMigrationM1(file, executed, tableExists) == file \in executed
shouldSkipMigration(file, executed, tableExists) ==
    \/ file = BOOTSTRAP /\ tableExists
    \/ file \in executed

\* an errorHandler that hands the failure on instead of ending the process
errorHandlerM1 == pc' = "threw" /\ exitCode' = exitCode

\* errorHandler(msg): console.error and process.exit(1)
errorHandler ==
    /\ pc' = "exited"
    /\ exitCode' = 1

\* the catch block of processMigrationFiles: log the file, rethrow the error
\* (variant M1: the error is logged and swallowed, the loop goes on;
\*  variant M2: the error is rethrown without the log line)
CatchRethrowM1(file, err) ==
    /\ stderr' = Append(stderr, [migration |-> file, message |-> err.message])
    /\ error' = error
    /\ failedFile' = file
    /\ idx' = idx + 1
    /\ pc' = "loop"
CatchRethrowM2(file, err) ==
    /\ stderr' = stderr
    /\ error' = err
    /\ failedFile' = file
    /\ idx' = idx
    /\ pc' = "threw"
CatchRethrow(file, err) ==
    /\ stderr' = Append(stderr, [migration |-> file, message |-> err.message])
    /\ error' = err
    /\ failedFile' = file
    /\ idx' = idx
    /\ pc' = "threw"

\* node run-migrations.js: AdapterFactory.create and new MigrationRunner
StartProcess ==
    /\ pc = "exited"
    /\ runs < MaxRuns
    /\ pc' = "idle"
    /\ sql' = "null"
    /\ opened' = 0
    /\ exitCode' = NoCode
    /\ UNCHANGED <<srcVars, sideVars,
                   dbVars, tx, localVars, idx, result, error, stderr,
                   histVars, runLog, examined, skippedFiles, faults, failedFile,
                   calls>>

\* a call of run(), the first of the runner or a further one
Run ==
    /\ pc \in {"idle", "returned"}
    /\ runs < MaxRuns
    /\ pc' = "connect"
    /\ runs' = runs + 1
    /\ ret' = "discover"
    /\ files' = <<>>
    /\ executedSet' = {}
    /\ idx' = 0
    /\ executedCount' = 0
    /\ skippedCount' = 0
    /\ result' = NoResult
    /\ error' = NoError
    /\ stderr' = <<>>
    /\ tx' = NoTx
    /\ runLog' = <<>>
    /\ atStart' = [table |-> table, rows |-> rows, schema |-> schema]
    /\ examined' = {}
    /\ skippedFiles' = {}
    /\ afterSuccess' = completed
    /\ faults' = 0
    /\ failedFile' = NoFile
    /\ calls' = <<>>
    /\ UNCHANGED <<srcVars, sideVars,
                   dbVars, sql, opened, exitCode, completed>>

\* connectToDatabase: adapter.connect()
Connect ==
    /\ pc = "connect"
    /\ sql' = connect(sql)
    /\ opened' = IF sql' # sql THEN opened + 1 ELSE opened
    /\ calls' = Append(calls, Call("connect", IF sql' # sql THEN "opened"
                                                              ELSE "kept"))
    /\ pc' = "test"
    /\ UNCHANGED <<srcVars, sideVars,
                   dbVars, tx, localVars, idx, outVars, error, stderr,
                   histVars, runLog, examined, skippedFiles, faults, failedFile>>

\* connectToDatabase that goes on whatever testConnection() answered
TestConnectionM1 ==
    /\ pc = "test"
    /\ \E roundTrip \in BOOLEAN :
         /\ pc' = "ensure"
         /\ calls' = Append(calls, Call("testConnection",
                                        IF testConnection(sql, roundTrip) = "true"
                                        THEN "true" ELSE "false"))
         /\ UNCHANGED <<exitCode, faults>>
    /\ UNCHANGED <<srcVars, sideVars,
                   dbVars, sql, opened, tx, localVars, idx, result,
                   error, stderr, histVars, runLog, examined, skippedFiles,
                   failedFile>>

\* connectToDatabase: adapter.testConnection(), false is fatal
TestConnection ==
    /\ pc = "test"
    /\ \E roundTrip \in BOOLEAN :
         IF testConnection(sql, roundTrip) = "true"
         THEN /\ pc' = "ensure"
              /\ calls' = Append(calls, Call("testConnection", "true"))
              /\ UNCHANGED <<exitCode, faults>>
         ELSE /\ errorHandler
              /\ calls' = Append(calls, Call("testConnection", "false"))
              /\ faults' = faults + 1
    /\ UNCHANGED <<srcVars, sideVars,
                   dbVars, sql, opened, tx, localVars, idx, result, error,
                   stderr, histVars, runLog, examined, skippedFiles, failedFile>>

\* ensureMigrationsTable: adapter.tableExists('schema_migrations', 'public')
EnsureTableExists ==
    /\ pc = "ensure"
    /\ \E answered \in BOOLEAN :
         IF answered
         THEN /\ pc' = IF table THEN ret ELSE "bootstrap"
              /\ calls' = Append(calls, Call("tableExists",
                                             IF table THEN "true" ELSE "false"))
              /\ UNCHANGED <<error, faults>>
         ELSE /\ pc' = "threw"
              /\ error' = BackendError(ConnectionLost)
              /\ calls' = Append(calls, Call("tableExists", ConnectionLost))
              /\ faults' = faults + 1
    /\ UNCHANGED <<srcVars, sideVars,
                   dbVars, sql, opened, tx, localVars, idx, outVars, stderr,
                   histVars, runLog, examined, skippedFiles, failedFile>>

\* ensureMigrationsTable that makes up the relation when the file is missing
EnsureBootstrapM1 ==
    /\ pc = "bootstrap"
    /\ IF BOOTSTRAP \notin Range(dirEntries)
       THEN /\ table' = TRUE
            /\ calls' = Append(calls, Call("executeRaw", "ok"))
            /\ pc' = ret
            /\ UNCHANGED <<rows, schema, error, exitCode, runLog>>
       ELSE IF RawSqlError(BOOTSTRAP, table, invalid) # ""
       THEN /\ pc' = "threw"
            /\ error' = BackendError(RawSqlError(BOOTSTRAP, table, invalid))
            /\ calls' = Append(calls, Call("executeRaw",
                                           RawSqlError(BOOTSTRAP, table, invalid)))
            /\ UNCHANGED <<dbVars, exitCode, runLog>>
       ELSE /\ table' = TRUE
            /\ schema' = ApplySql(BOOTSTRAP, schema)
            /\ runLog' = Append(runLog, [op |-> "raw", file |-> BOOTSTRAP])
            /\ calls' = Append(calls, Call("executeRaw", "ok"))
            /\ pc' = ret
            /\ UNCHANGED <<rows, error, exitCode>>
    /\ UNCHANGED <<srcVars, sideVars,
                   sql, opened, tx, localVars, idx, result, stderr,
                   histVars, examined, skippedFiles, faults, failedFile>>

\* ensureMigrationsTable: the tracking relation is absent, so run the file
\* 000_migrations_table.sql with adapter.executeRaw, or give up without it
EnsureBootstrap ==
    /\ pc = "bootstrap"
    /\ IF BOOTSTRAP \notin Range(dirEntries)
       THEN /\ errorHandler
            /\ UNCHANGED <<dbVars, error, runLog, calls>>
       ELSE IF RawSqlError(BOOTSTRAP, table, invalid) # ""
       THEN /\ pc' = "threw"
            /\ error' = BackendError(RawSqlError(BOOTSTRAP, table, invalid))
            /\ calls' = Append(calls, Call("executeRaw",
                                           RawSqlError(BOOTSTRAP, table, invalid)))
            /\ UNCHANGED <<dbVars, exitCode, runLog>>
       ELSE /\ table' = TRUE
            /\ schema' = ApplySql(BOOTSTRAP, schema)
            /\ runLog' = Append(runLog, [op |-> "raw", file |-> BOOTSTRAP])
            /\ calls' = Append(calls, Call("executeRaw", "ok"))
            /\ pc' = ret
            /\ UNCHANGED <<rows, error, exitCode>>
    /\ UNCHANGED <<srcVars, sideVars,
                   sql, opened, tx, localVars, idx, result, stderr, histVars,
                   examined, skippedFiles, faults, failedFile>>

\* run() step 3 without the early return on an empty list
DiscoverM1 ==
    /\ pc = "discover"
    /\ IF ~dirExists
       THEN /\ errorHandler
            /\ calls' = Append(calls, Call("existsSync", "false"))
            /\ UNCHANGED <<files, result, completed>>
       ELSE /\ files' = getMigrationFiles(dirEntries)
            /\ calls' = Append(calls, Call("readdirSync", "ok"))
            /\ pc' = "query"
            /\ UNCHANGED <<result, completed, exitCode>>
    /\ UNCHANGED <<srcVars, sideVars,
                   dbVars, sql, opened, tx, ret, executedSet,
                   executedCount, skippedCount, idx, error, stderr, runs,
                   atStart, afterSuccess, runLog, examined, skippedFiles,
                   faults, failedFile>>

\* run() step 3: getMigrationFiles, where a missing directory is fatal, and
\* the early return on an empty list
Discover ==
    /\ pc = "discover"
    /\ IF ~dirExists
       THEN /\ errorHandler
            /\ calls' = Append(calls, Call("existsSync", "false"))
            /\ UNCHANGED <<files, result, completed>>
       ELSE /\ files' = getMigrationFiles(dirEntries)
            /\ calls' = Append(calls, Call("readdirSync", "ok"))
            /\ IF files' = <<>>
               THEN /\ result' = [executed |-> 0, skipped |-> 0]
                    /\ completed' = TRUE
                    /\ pc' = "returned"
                    /\ UNCHANGED exitCode
               ELSE /\ pc' = "query"
                    /\ UNCHANGED <<result, completed, exitCode>>
    /\ UNCHANGED <<srcVars, sideVars,
                   dbVars, sql, opened, tx, ret, executedSet,
                   executedCount, skippedCount, idx, error, stderr, runs,
                   atStart, afterSuccess, runLog, examined, skippedFiles,
                   faults, failedFile>>

\* getExecutedMigrations: no query for an empty list; the batch query, its
\* catch block
\* (variant: the query is sent once for the count and once for the names)
GetExecutedMigrationsM1 ==
    /\ pc = "query"
    /\ IF Len(files) = 0
       THEN /\ executedSet' = {}
            /\ pc' = "loop"
            /\ UNCHANGED <<ret, exitCode, faults, calls>>
       ELSE \E reply \in QueryReplies(table) :
         /\ calls' = Append(Append(calls, Call("query", reply)),
                           Call("query", reply))
         /\ IF reply = "rows"
            THEN /\ executedSet' = SelectExecuted(rows, Range(files))
                 /\ pc' = "loop"
                 /\ UNCHANGED <<ret, exitCode, faults>>
            ELSE IF IncludesDoesNotExist(reply)
            THEN /\ executedSet' = {}
                 /\ ret' = "loop"
                 /\ pc' = "ensure"
                 /\ faults' = faults + 1
                 /\ UNCHANGED exitCode
            ELSE /\ errorHandler
                 /\ faults' = faults + 1
                 /\ UNCHANGED <<ret, executedSet>>
    /\ idx' = 1
    /\ UNCHANGED <<srcVars, sideVars,
                   dbVars, sql, opened, tx, files, executedCount, skippedCount,
                   result, error, stderr, histVars, runLog, examined,
                   skippedFiles, failedFile>>
GetExecutedMigrations ==
    /\ pc = "query"
    /\ IF Len(files) = 0
       THEN /\ executedSet' = {}
            /\ pc' = "loop"
            /\ UNCHANGED <<ret, exitCode, faults, calls>>
       ELSE \E reply \in QueryReplies(table) :
         /\ calls' = Append(calls, Call("query", reply))
         /\ IF reply = "rows"
            THEN /\ executedSet' = SelectExecuted(rows, Range(files))
                 /\ pc' = "loop"
                 /\ UNCHANGED <<ret, exitCode, faults>>
            ELSE IF IncludesDoesNotExist(reply)
            THEN /\ executedSet' = {}
                 /\ ret' = "loop"
                 /\ pc' = "ensure"
                 /\ faults' = faults + 1
                 /\ UNCHANGED exitCode
            ELSE /\ errorHandler
                 /\ faults' = faults + 1
                 /\ UNCHANGED <<ret, executedSet>>
    /\ idx' = 1
    /\ UNCHANGED <<srcVars, sideVars,
                   dbVars, sql, opened, tx, files, executedCount, skippedCount,
                   result, error, stderr, histVars, runLog, examined,
                   skippedFiles, failedFile>>

\* processMigrationFiles: the loop is over, run() returns the counts
Summarize ==
    /\ pc = "loop"
    /\ idx > Len(files)
    /\ result' = [executed |-> executedCount, skipped |-> skippedCount]
    /\ completed' = TRUE
    /\ pc' = "returned"
    /\ UNCHANGED <<srcVars, sideVars,
                   dbVars, sql, opened, tx, localVars, idx, exitCode,
                   error, stderr, runs, atStart, afterSuccess, runLog,
                   examined, skippedFiles, faults, failedFile, calls>>

\* processMigrationFiles: shouldSkipMigration for the next file; a file that
\* is not skipped goes to executeMigration, which opens the transaction
ExamineFile ==
    /\ pc = "loop"
    /\ idx <= Len(files)
    /\ examined' = examined \cup {files[idx]}
    /\ \E answered \in BOOLEAN :
         IF files[idx] = BOOTSTRAP /\ ~answered
         THEN /\ CatchRethrow(files[idx], BackendError(ConnectionLost))
              /\ calls' = Append(calls, Call("tableExists", ConnectionLost))
              /\ faults' = faults + 1
              /\ UNCHANGED <<tx, skippedCount, skippedFiles, runLog>>
         ELSE IF shouldSkipMigration(files[idx], executedSet, table)
         THEN /\ skippedCount' = skippedCount + 1
              /\ skippedFiles' = skippedFiles \cup {files[idx]}
              /\ idx' = idx + 1
              /\ calls' = IF files[idx] = BOOTSTRAP
                          THEN Append(calls, Call("tableExists", "true"))
                          ELSE calls
              /\ UNCHANGED <<pc, tx, error, stderr, faults, failedFile, runLog>>
         ELSE /\ tx' = [state |-> "open", file |-> files[idx], table |-> table,
                        rows |-> rows, schema |-> schema]
              /\ runLog' = Append(runLog, [op |-> "begin", file |-> files[idx]])
              /\ calls' = Append(IF files[idx] = BOOTSTRAP
                                 THEN Append(calls, Call("tableExists", "false"))
                                 ELSE calls,
                                 Call("transaction", "begin"))
              /\ pc' = "txRaw"
              /\ UNCHANGED <<idx, skippedCount, skippedFiles, error, stderr,
                             faults, failedFile>>
    /\ UNCHANGED <<srcVars, sideVars,
                   dbVars, sql, opened, ret, files, executedSet,
                   executedCount,
                   outVars, histVars>>

\* sql.begin rejects: ROLLBACK, and the error reaches the catch block
TxAbort(message) ==
    /\ table' = Rollback(tx, [table |-> table, rows |-> rows, schema |-> schema]).table
    /\ rows' = Rollback(tx, [table |-> table, rows |-> rows, schema |-> schema]).rows
    /\ schema' = Rollback(tx, [table |-> table, rows |-> rows, schema |-> schema]).schema
    /\ tx' = [tx EXCEPT !.state = "rolledback"]
    /\ runLog' = Append(runLog, [op |-> "rollback", file |-> tx.file])
    /\ CatchRethrow(tx.file, BackendError(message))

\* executeMigration: adapter.executeRaw(fileContent) inside the transaction
TxExecuteRaw ==
    /\ pc = "txRaw"
    /\ \E delivered \in BOOLEAN :
         IF ~delivered
         THEN /\ TxAbort(ConnectionLost)
              /\ calls' = Append(calls, Call("tx.executeRaw", ConnectionLost))
              /\ faults' = faults + 1
         ELSE IF RawSqlError(tx.file, table, invalid) # ""
         THEN /\ TxAbort(RawSqlError(tx.file, table, invalid))
              /\ calls' = Append(calls, Call("tx.executeRaw",
                                             RawSqlError(tx.file, table, invalid)))
              /\ UNCHANGED faults
         ELSE /\ schema' = ApplySql(tx.file, schema)
              /\ table' = (table \/ tx.file = BOOTSTRAP)
              /\ runLog' = Append(runLog, [op |-> "exec", file |-> tx.file])
              /\ calls' = Append(calls, Call("tx.executeRaw", "ok"))
              /\ pc' = "txInsert"
              /\ UNCHANGED <<rows, tx, idx, error, stderr, faults, failedFile>>
    /\ UNCHANGED <<srcVars, sideVars,
                   sql, opened, localVars, outVars, histVars, examined,
                   skippedFiles>>

\* executeMigration: adapter.insertMigrationRecord(migrationName) inside it
TxInsertRecord ==
    /\ pc = "txInsert"
    /\ \E delivered \in BOOLEAN :
         IF ~delivered
         THEN /\ TxAbort(ConnectionLost)
              /\ calls' = Append(calls, Call("tx.insertMigrationRecord",
                                             ConnectionLost))
              /\ faults' = faults + 1
         ELSE IF ~table
         THEN /\ TxAbort(UndefinedTable)
              /\ calls' = Append(calls, Call("tx.insertMigrationRecord",
                                             UndefinedTable))
              /\ UNCHANGED faults
         ELSE /\ rows' = insertMigrationRecord(rows, tx.file, runs)
              /\ runLog' = Append(runLog, [op |-> "insert", file |-> tx.file])
              /\ calls' = Append(calls, Call("tx.insertMigrationRecord", "ok"))
              /\ pc' = "txCommit"
              /\ UNCHANGED <<table, schema, tx, idx, error, stderr, faults,
                             failedFile>>
    /\ UNCHANGED <<srcVars, sideVars,
                   sql, opened, localVars, outVars, histVars, examined,
                   skippedFiles>>

\* the callback returned: COMMIT, executedCount++
\* (variant M2: the loop does not move on to the next file)
TxCommitM2 ==
    /\ pc = "txCommit"
    /\ tx' = [tx EXCEPT !.state = "committed"]
    /\ runLog' = Append(runLog, [op |-> "commit", file |-> tx.file])
    /\ executedCount' = executedCount + 1
    /\ idx' = idx
    /\ pc' = "loop"
    /\ UNCHANGED <<srcVars, sideVars,
                   dbVars, sql, opened, ret, files, executedSet,
                   skippedCount, outVars, error, stderr, histVars, examined,
                   skippedFiles, faults, failedFile, calls>>
\* (variant M1: the transaction is not awaited, the loop goes on with the
\*  COMMIT still to come)
TxCommitM1 ==
    /\ pc = "txCommit"
    /\ tx' = tx
    /\ runLog' = runLog
    /\ executedCount' = executedCount + 1
    /\ idx' = idx + 1
    /\ pc' = "loop"
    /\ UNCHANGED <<srcVars, sideVars,
                   dbVars, sql, opened, ret, files, executedSet,
                   skippedCount, outVars, error, stderr, histVars, examined,
                   skippedFiles, faults, failedFile, calls>>
TxCommit ==
    /\ pc = "txCommit"
    /\ tx' = [tx EXCEPT !.state = "committed"]
    /\ runLog' = Append(runLog, [op |-> "commit", file |-> tx.file])
    /\ executedCount' = executedCount + 1
    /\ idx' = idx + 1
    /\ pc' = "loop"
    /\ UNCHANGED <<srcVars, sideVars,
                   dbVars, sql, opened, ret, files, executedSet,
                   skippedCount, outVars, error, stderr, histVars, examined,
                   skippedFiles, faults, failedFile, calls>>

\* executeMigrationWorkflow: runner.cleanup() after run() returned
Cleanup ==
    /\ pc = "returned"
    /\ sql' = disconnect(sql)
    /\ calls' = Append(calls, Call("disconnect", "ok"))
    /\ pc' = "cleaned"
    /\ UNCHANGED <<srcVars, sideVars,
                   dbVars, opened, tx, localVars, idx, outVars, error,
                   stderr, histVars, runLog, examined, skippedFiles, faults,
                   failedFile>>

\* main: process.exit(0)
ExitSuccess ==
    /\ pc = "cleaned"
    /\ pc' = "exited"
    /\ exitCode' = 0
    /\ UNCHANGED <<srcVars, sideVars,
                   dbVars, sql, opened, tx, localVars, idx, result,
                   error, stderr, histVars, runLog, examined, skippedFiles,
                   faults, failedFile, calls>>

\* main().catch: the error run() threw ends the process with code 1
\* (variant: the catch logs the error and exits with code 0)
ExitFailureM1 ==
    /\ pc = "threw"
    /\ pc' = "exited"
    /\ exitCode' = 0
    /\ UNCHANGED <<srcVars, sideVars,
                   dbVars, sql, opened, tx, localVars, idx, result,
                   error, stderr, histVars, runLog, examined, skippedFiles,
                   faults, failedFile, calls>>
ExitFailure ==
    /\ pc = "threw"
    /\ pc' = "exited"
    /\ exitCode' = 1
    /\ UNCHANGED <<srcVars, sideVars,
                   dbVars, sql, opened, tx, localVars, idx, result,
                   error, stderr, histVars, runLog, examined, skippedFiles,
                   faults, failedFile, calls>>

Next ==
    \/ StartProcess
    \/ Run
    \/ Connect
    \/ TestConnection
    \/ EnsureTableExists
    \/ EnsureBootstrap
    \/ Discover
    \/ GetExecutedMigrations
    \/ Summarize
    \/ ExamineFile
    \/ TxExecuteRaw
    \/ TxInsertRecord
    \/ TxCommit
    \/ Cleanup
    \/ ExitSuccess
    \/ ExitFailure

Spec == Init /\ [][Next]_vars

(***************************************************************************)
(* Vocabulary of the properties.                                           *)
(***************************************************************************)
\* the run() that was started last is over
RunOver ==
    \/ pc \in {"returned", "cleaned", "threw", "exited"}
    \/ pc = "idle" /\ runs > 0

\* that run() returned its summary
RunReturned == RunOver /\ result # NoResult

\* the files whose SQL the current run has executed so far
ExecutedInRun == {runLog[i].file : i \in {k \in DOMAIN runLog : runLog[k].op \in {"raw", "exec"}}}

\* the files the bootstrap step has executed in the current run
RawInRun == {runLog[i].file : i \in {k \in DOMAIN runLog : runLog[k].op = "raw"}}

\* a's SQL is committed in the current run before anything of b starts
CommittedBefore(a, b) ==
    \E i \in DOMAIN runLog :
        /\ runLog[i].file = a
        /\ runLog[i].op \in {"raw", "commit"}
        /\ \A k \in DOMAIN runLog : runLog[k].file = b => i < k

\* no SQL was executed and no record inserted in the current run
NothingApplied ==
    \A i \in DOMAIN runLog : runLog[i].op \notin {"raw", "exec", "insert"}

(***************************************************************************)
(* C1. Idempotence: once a run() has returned its summary, a later run()   *)
(* on the same source and database executes no SQL, inserts no record,     *)
(* leaves schema and tracking table as they were, and returns executed = 0,*)
(* skipped = number of discovered files.                                   *)
(***************************************************************************)
C1_Idempotence ==
    afterSuccess =>
        /\ NothingApplied
        /\ tx.state # "open" =>
              /\ rows = atStart.rows
              /\ schema = atStart.schema
              /\ table = atStart.table
        /\ RunReturned => result = [executed |-> 0, skipped |-> Len(files)]

(***************************************************************************)
(* C2. Exactly once: the SQL of a migration file that already has a        *)
(* Migration Record is never executed again, whatever the batch query      *)
(* answered (rows, or an error the runner recovers from).                  *)
(***************************************************************************)
C2_ExactlyOnce ==
    (pc = "txInsert" /\ tx.state = "open") => tx.file \notin RecordedNames(tx.rows)

C4_Atomicity ==
    /\ tx.state = "rolledback" =>
          /\ table = tx.table
          /\ rows = tx.rows
          /\ schema = tx.schema
          /\ tx.file \notin RecordedNames(tx.rows) => tx.file \notin RecordedNames(rows)
          /\ error # NoError
          /\ pc \in {"threw", "exited", "idle"}
    /\ tx.state = "committed" =>
          /\ tx.file \in RecordedNames(rows)
          /\ schema[tx.file] = tx.schema[tx.file] + 1

\* a transaction rolled back after its SQL had been executed
C4_Witness ==
    /\ tx.state = "rolledback"
    /\ \E i \in DOMAIN runLog : runLog[i] = [op |-> "exec", file |-> tx.file]
    /\ pc = "threw"

(***************************************************************************)
(* C5. Record/commit invariant.  As claimed: outside an open transaction,  *)
(* every migration file of the source, the bootstrap file included, has a  *)
(* Migration Record if and only if its SQL has been committed.             *)
(***************************************************************************)
C5_RecordIffCommitted ==
    tx.state # "open" =>
        \A n \in MigrationNames(dirEntries) :
            n \in RecordedNames(rows) <=> schema[n] > 0

(***************************************************************************)
(* C5 as amended: outside an open transaction, every migration file of the *)
(* source other than the bootstrap file has a Migration Record if and only *)
(* if its SQL has been committed (the bootstrap step commits the bootstrap *)
(* file's SQL without a record).                                           *)
(***************************************************************************)
C5_RecordIffCommittedButBootstrap ==
    tx.state # "open" =>
        \A n \in MigrationNames(dirEntries) \ {BOOTSTRAP} :
            n \in RecordedNames(rows) <=> schema[n] > 0

\* a recorded, committed migration beside a bootstrap file without a record
C5_Witness ==
    /\ tx.state = "committed"
    /\ tx.file # BOOTSTRAP
    /\ tx.file \in RecordedNames(rows)
    /\ schema[BOOTSTRAP] > 0
    /\ BOOTSTRAP \notin RecordedNames(rows)

\* the fresh-database scenario: no tracking relation, and a source of the
\* bootstrap file and one further valid migration
FreshTwoFiles ==
    /\ \E f \in Names \ {BOOTSTRAP} :
          /\ IsMigrationFile(f)
          /\ Range(dirEntries) = {BOOTSTRAP, f}
    /\ invalid = {}

\* the partial-failure scenario: the bootstrap file, a valid migration and an
\* invalid one, in that lexical order
BootstrapValidInvalid(v, x) ==
    /\ Range(dirEntries) = {BOOTSTRAP, v, x}
    /\ IsMigrationFile(v) /\ IsMigrationFile(x)
    /\ NameLess(BOOTSTRAP, v) /\ NameLess(v, x)
    /\ invalid = {x}

(***************************************************************************)
(* C6. Fresh database.  As claimed: the first run() returns executed = 2,  *)
(* skipped = 0 and leaves two Migration Records, one per file.             *)
(***************************************************************************)
C6_FreshRunCountsTwo ==
    (FreshTwoFiles /\ runs = 1 /\ ~atStart.table /\ faults = 0 /\ RunOver) =>
        /\ result = [executed |-> 2, skipped |-> 0]
        /\ RecordedNames(rows) = Range(dirEntries)
        /\ Cardinality(rows) = 2

(***************************************************************************)
(* C6 as amended: with every backend call succeeding, the first run()      *)
(* against the fresh database returns executed = 1, skipped = 1 and leaves *)
(* one Migration Record, that of the further migration (the bootstrap step *)
(* has run the bootstrap file, which the loop then skips and nothing       *)
(* records); a second run() returns executed = 0, skipped = 2 and changes  *)
(* nothing.                                                                *)
(***************************************************************************)
C6_FreshRunCountsOne ==
    /\ (FreshTwoFiles /\ runs = 1 /\ ~atStart.table /\ faults = 0 /\ RunOver) =>
          /\ result = [executed |-> 1, skipped |-> 1]
          /\ RecordedNames(rows) = Range(dirEntries) \ {BOOTSTRAP}
          /\ Cardinality(rows) = 1
          /\ schema[BOOTSTRAP] = 1
    /\ (FreshTwoFiles /\ runs = 2 /\ afterSuccess /\ faults = 0 /\ RunOver) =>
          /\ result = [executed |-> 0, skipped |-> 2]
          /\ rows = atStart.rows
          /\ schema = atStart.schema

\* the second run of the scenario has returned, the first having bootstrapped
C6_Witness ==
    /\ FreshTwoFiles
    /\ runs = 2
    /\ afterSuccess
    /\ faults = 0
    /\ pc = "returned"
    /\ schema[BOOTSTRAP] = 1
    /\ Cardinality(rows) = 1

(***************************************************************************)
(* C7. Partial failure.  As claimed: run() fails at the invalid file, the  *)
(* tracking table then holds records for exactly the bootstrap file and    *)
(* the valid migration, the valid migration's effect is present and the    *)
(* invalid one's is absent.                                                *)
(***************************************************************************)
C7_PartialFailureTwoRecords ==
    \A v \in Names : \A x \in Names :
        (BootstrapValidInvalid(v, x) /\ runs = 1 /\ ~atStart.table
            /\ faults = 0 /\ RunOver) =>
            /\ failedFile = x
            /\ result = NoResult
            /\ RecordedNames(rows) = {BOOTSTRAP, v}
            /\ schema[v] = 1
            /\ schema[x] = 0

(***************************************************************************)
(* C7 as amended: with every backend call answering, run() fails at the    *)
(* invalid file and the tracking table then holds exactly one record, that *)
(* of the valid migration (the bootstrap file is applied by the bootstrap  *)
(* step and has no record); the effects of the bootstrap file and of the   *)
(* valid migration are present, that of the invalid one is absent.         *)
(***************************************************************************)
C7_PartialFailureOneRecord ==
    \A v \in Names : \A x \in Names :
        (BootstrapValidInvalid(v, x) /\ runs = 1 /\ ~atStart.table
            /\ faults = 0 /\ RunOver) =>
            /\ failedFile = x
            /\ result = NoResult
            /\ error = BackendError(SyntaxError)
            /\ RecordedNames(rows) = {v}
            /\ table
            /\ schema[BOOTSTRAP] = 1
            /\ schema[v] = 1
            /\ schema[x] = 0

\* the run of the scenario has failed at the invalid file
C7_Witness ==
    \E v \in Names : \E x \in Names :
        /\ BootstrapValidInvalid(v, x)
        /\ runs = 1
        /\ ~atStart.table
        /\ faults = 0
        /\ pc = "threw"
        /\ failedFile = x

C9_ErrorCarriesName ==
    (pc = "threw" /\ failedFile # NoFile) => error.migration = failedFile

(***************************************************************************)
(* C9 as amended: when a migration's transaction fails, the runner writes  *)
(* the failing file's name with the error's message to the error output    *)
(* and rethrows the error as the backend raised it: the name is in the     *)
(* log, not in the error that propagates out of run().                     *)
(***************************************************************************)
C9_NameIsLogged ==
    failedFile # NoFile =>
        /\ \E i \in DOMAIN stderr :
              stderr[i] = [migration |-> failedFile, message |-> error.message]
        /\ error.migration = NoFile
        /\ error.message # ""

\* a transaction failed on invalid SQL and the error is on its way out
C9_Witness ==
    /\ pc = "threw"
    /\ failedFile # NoFile
    /\ tx.state = "rolledback"
    /\ error.message = SyntaxError

(***************************************************************************)
(* C10. Bootstrap skip: when the tracking relation exists as run() starts  *)
(* and the source holds the bootstrap file, the file is counted as         *)
(* skipped, not executed; its SQL is not run, so no 'already exists' error *)
(* arises, and a run that returns has skipped it.                          *)
(***************************************************************************)
C10_BootstrapSkip ==
    (runs > 0 /\ atStart.table /\ BOOTSTRAP \in MigrationNames(dirEntries)) =>
        /\ \A i \in DOMAIN runLog : runLog[i].file # BOOTSTRAP
        /\ schema[BOOTSTRAP] = atStart.schema[BOOTSTRAP]
        /\ error.message # DuplicateTable
        /\ (BOOTSTRAP \in examined /\ failedFile # BOOTSTRAP) =>
              BOOTSTRAP \in skippedFiles
        /\ RunReturned =>
              /\ BOOTSTRAP \in skippedFiles
              /\ result.skipped >= 1
              /\ result.executed <= Len(files) - 1

\* a run that found the relation in place has returned, the bootstrap file skipped
C10_Witness ==
    /\ runs > 0
    /\ atStart.table
    /\ BOOTSTRAP \in skippedFiles
    /\ pc = "returned"
    /\ result.executed > 0


\* the ops of the calls of the current run that reach the database with SQL
SqlCalls ==
    {"executeRaw", "query", "transaction", "tx.executeRaw",
     "tx.insertMigrationRecord"}

\* the ops of the calls the current run has made so far
OpsCalled == {calls[i].op : i \in DOMAIN calls}

\* the last call the current run made
LastCall == IF calls = <<>> THEN Call("", "") ELSE calls[Len(calls)]

(***************************************************************************)
(* C11. Missing bootstrap is fatal: when the tracking relation does not    *)
(* exist and the source holds no bootstrap file, the run ends at the       *)
(* ensure step; the relation is not created by any other means, and no     *)
(* migration SQL, no query and no transaction is issued.                   *)
(***************************************************************************)
C11_MissingBootstrapFatal ==
    (runs > 0 /\ ~atStart.table /\ BOOTSTRAP \notin Range(dirEntries)) =>
        /\ ~table
        /\ rows = atStart.rows
        /\ schema = atStart.schema
        /\ OpsCalled \cap SqlCalls = {}
        /\ runLog = <<>>
        /\ result = NoResult
        /\ pc \in {"connect", "test", "ensure", "bootstrap", "threw", "exited",
                   "idle"}
        /\ (LastCall = Call("tableExists", "false") /\ pc # "bootstrap") =>
              /\ pc \in {"exited", "idle"}
              /\ pc = "exited" => exitCode = 1

\* the run found no relation and no bootstrap file, and the process is over
C11_Witness ==
    /\ runs > 0
    /\ ~atStart.table
    /\ BOOTSTRAP \notin Range(dirEntries)
    /\ MigrationNames(dirEntries) # {}
    /\ LastCall = Call("tableExists", "false")
    /\ pc = "exited"


\* the ops of the calls that read or write the database
DbCalls == SqlCalls \cup {"tableExists"}

(***************************************************************************)
(* C12. Verified connection first: within a run, no tableExists,           *)
(* executeRaw, query or transaction call comes before testConnection()     *)
(* has returned true in that run; when testConnection() returns false the  *)
(* run ends there, fatally, the database is as it was, and the test is not *)
(* tried again.                                                            *)
(***************************************************************************)
C12_VerifiedConnectionFirst ==
    /\ \A i \in DOMAIN calls :
          calls[i].op \in DbCalls =>
              \E j \in 1..(i - 1) : calls[j] = Call("testConnection", "true")
    /\ (\E j \in DOMAIN calls : calls[j] = Call("testConnection", "false")) =>
          /\ LastCall = Call("testConnection", "false")
          /\ Cardinality({j \in DOMAIN calls : calls[j].op = "testConnection"}) = 1
          /\ OpsCalled \cap DbCalls = {}
          /\ table = atStart.table
          /\ rows = atStart.rows
          /\ schema = atStart.schema
          /\ result = NoResult
          /\ pc \in {"exited", "idle"}
          /\ pc = "exited" => exitCode = 1

\* a run on a database that holds records ended at a failed connection test
C12_Witness ==
    /\ LastCall = Call("testConnection", "false")
    /\ pc = "exited"
    /\ rows # {}


\* the run() that was started last is over and gave back no summary
RunFailed == RunOver /\ ~RunReturned

\* the replies that are not errors
PlainReplies ==
    {"ok", "true", "false", "rows", "begin", "opened", "kept", ""}

(***************************************************************************)
(* C13. Error propagation policy, as stated: every failure of run() other  *)
(* than the recovered one reaches the caller of run() as a propagated      *)
(* error, and the engine never ends the process itself.                    *)
(***************************************************************************)
C13_EveryFailurePropagates == RunFailed => error # NoError

(***************************************************************************)
(* C13, amended. A failing migration, failing bootstrap SQL and a failing  *)
(* tableExists call reach the caller of run() as the error the backend     *)
(* raised; a failed connection test, a missing bootstrap file, a missing   *)
(* source directory and a batch query failure whose message lacks 'does    *)
(* not exist' go to errorHandler, which ends the process with code 1 from  *)
(* inside the engine, so nothing reaches the caller.                       *)
(***************************************************************************)
C13_FailurePolicy ==
    RunFailed =>
        IF error # NoError
        THEN /\ LastCall.op \in {"tableExists", "executeRaw", "tx.executeRaw",
                                 "tx.insertMigrationRecord"}
             /\ LastCall.reply \notin PlainReplies
             /\ error.message = LastCall.reply
             /\ pc = "exited" => exitCode = 1
        ELSE /\ \/ LastCall = Call("testConnection", "false")
                \/ LastCall = Call("tableExists", "false")
                      /\ BOOTSTRAP \notin Range(dirEntries)
                \/ LastCall = Call("existsSync", "false") /\ ~dirExists
                \/ /\ LastCall.op = "query"
                   /\ LastCall.reply \notin PlainReplies
                   /\ ~IncludesDoesNotExist(LastCall.reply)
             /\ pc \in {"exited", "idle"}
             /\ pc = "exited" => exitCode = 1

\* a batch query failed for another reason and errorHandler ended the process
C13_Witness ==
    /\ pc = "exited"
    /\ exitCode = 1
    /\ error = NoError
    /\ LastCall = Call("query", ConnectionLost)


(***************************************************************************)
(* The batch diff on any tracking table: the database holds records of any *)
(* names (of files that left the source, or inserted by hand), and run()   *)
(* goes as far as getExecutedMigrations.                                   *)
(***************************************************************************)
\* the tracking tables of at most n records, all older than the first run
Tables(n) ==
    {{[migration_name |-> name, executed_at |-> 0] : name \in recorded} :
        recorded \in {b \in SUBSET Names : Cardinality(b) <= n}}

InitDiff ==
    /\ dirExists = TRUE
    /\ dirEntries \in Listings(MaxFiles)
    /\ invalid = {}
    /\ table \in BOOLEAN
    /\ rows \in IF table THEN Tables(MaxRecords) ELSE {{}}
    /\ schema = [n \in Names |-> 0]
    /\ sql = "null"
    /\ tx = NoTx
    /\ pc = "idle"
    /\ ret = "discover"
    /\ files = <<>>
    /\ executedSet = {}
    /\ idx = 0
    /\ executedCount = 0
    /\ skippedCount = 0
    /\ result = NoResult
    /\ error = NoError
    /\ stderr = <<>>
    /\ exitCode = NoCode
    /\ runs = 0
    /\ runLog = <<>>
    /\ atStart = [table |-> table, rows |-> rows, schema |-> schema]
    /\ examined = {}
    /\ skippedFiles = {}
    /\ completed = FALSE
    /\ afterSuccess = FALSE
    /\ faults = 0
    /\ failedFile = NoFile
    /\ calls = <<>>
    /\ opened = 0
    /\ operator = NoOperator
    /\ runners = [p \in Instances |-> IdleRunner]
    /\ creations = <<>>
    /\ legacy = IdleLegacy

NextDiff ==
    \/ Run
    \/ Connect
    \/ TestConnection
    \/ EnsureTableExists
    \/ EnsureBootstrap
    \/ Discover
    \/ GetExecutedMigrations

SpecDiff == InitDiff /\ [][NextDiff]_vars

(***************************************************************************)
(* C14. Batch-diff correctness: for any list of discovered names and any   *)
(* set of recorded names, getExecutedMigrations returns the discovered     *)
(* names that are recorded: no name outside the list, and no recorded      *)
(* name of the list left out.                                              *)
(***************************************************************************)
C14_BatchDiff ==
    LastCall = Call("query", "rows") =>
        /\ \A name \in executedSet : name \in Names
        /\ \A name \in Names :
              name \in executedSet <=>
                  /\ \E i \in DOMAIN files : files[i] = name
                  /\ \E r \in rows : r.migration_name = name

\* the query answered for a list with a recorded and an unrecorded file, on
\* a table that also records a name the list does not hold
C14_Witness ==
    /\ LastCall = Call("query", "rows")
    /\ pc = "loop"
    /\ executedSet # {}
    /\ Range(files) \ executedSet # {}
    /\ RecordedNames(rows) \ Range(files) # {}


(***************************************************************************)
(* The race the catch block of getExecutedMigrations is written for:       *)
(* another session drops the tracking relation after the ensure step has   *)
(* seen it and before the batch query reads it.                            *)
(***************************************************************************)
DropTable ==
    /\ pc = "query"
    /\ table
    /\ table' = FALSE
    /\ rows' = {}
    /\ UNCHANGED <<srcVars, sideVars,
                   schema, sql, opened, tx, pc, localVars, idx,
                   outVars, error, stderr, histVars, runLog, examined,
                   skippedFiles, faults, failedFile, calls>>

NextRace ==
    \/ Next
    \/ DropTable

SpecRace == Init /\ [][NextRace]_vars

\* the batch query of the current run failed for want of the relation
QueryFoundNoTable ==
    \E i \in DOMAIN calls : calls[i] = Call("query", UndefinedTable)

(***************************************************************************)
(* C15. Benign race recovery: when the batch query fails because the       *)
(* tracking relation does not exist, the runner goes through the ensure    *)
(* step again, takes the empty set as the executed set and goes on; the    *)
(* failure does not reach the caller, and with the bootstrap file in place *)
(* and nothing else failing the run executes the bootstrap SQL, then every *)
(* other file in order, and returns.                                       *)
(***************************************************************************)
C15_RaceRecovery ==
    QueryFoundNoTable =>
        /\ executedSet = {}
        /\ error.message # UndefinedTable
        /\ pc # "query"
        /\ \A i \in DOMAIN calls :
              (calls[i] = Call("query", UndefinedTable) /\ i < Len(calls)) =>
                  /\ calls[i + 1].op = "tableExists"
                  /\ (calls[i + 1].reply = "false" /\ i + 1 < Len(calls)) =>
                        calls[i + 2].op = "executeRaw"
        /\ (RunOver /\ faults = 1 /\ invalid = {}
                /\ BOOTSTRAP \in Range(dirEntries)) =>
              /\ RunReturned
              /\ RawInRun = {BOOTSTRAP}
              /\ table
              /\ ExecutedInRun = Range(files)
              /\ RecordedNames(rows) = Range(files) \ {BOOTSTRAP}
              /\ result = [executed |-> Len(files) - 1, skipped |-> 1]
              /\ \A a, b \in Range(files) \ {BOOTSTRAP} :
                    NameLess(a, b) => CommittedBefore(a, b)

\* the relation, with a record in it, was dropped under the second run, which
\* built it again and executed both files of the source
C15_Witness ==
    /\ QueryFoundNoTable
    /\ pc = "returned"
    /\ atStart.rows # {}
    /\ result = [executed |-> 2, skipped |-> 1]


\* getMigrationFiles has read the directory in the current run
Discovered == "readdirSync" \in OpsCalled

(***************************************************************************)
(* C16. Empty source: when discovery yields an empty sequence of migration *)
(* files, run() ends successfully with executed = 0 and skipped = 0, and   *)
(* issues no batch query and opens no transaction.                         *)
(***************************************************************************)
C16_EmptySource ==
    (Discovered /\ files = <<>>) =>
        /\ RunReturned
        /\ result = [executed |-> 0, skipped |-> 0]
        /\ error = NoError
        /\ pc = "exited" => exitCode = 0
        /\ OpsCalled \cap {"query", "transaction", "tx.executeRaw",
                           "tx.insertMigrationRecord"} = {}
        /\ runLog = <<>>
        /\ rows = atStart.rows

\* a directory that holds entries but no migration file: run() has returned
C16_Witness ==
    /\ Discovered
    /\ files = <<>>
    /\ dirEntries # <<>>
    /\ pc = "returned"


\* the name is that of a migration: its last four code units are '.sql' and
\* its first is not '_'
Eligible(name) ==
    LET c == Chars[name]
        n == Len(c)
    IN /\ n >= 4
       /\ c[n - 3] = 46 /\ c[n - 2] = 115 /\ c[n - 1] = 113 /\ c[n] = 108
       /\ c[1] # 95

(***************************************************************************)
(* C17. Migration source: getMigrationFiles returns exactly the directory  *)
(* entries whose name ends with '.sql' and does not start with '_', each   *)
(* once, in ascending order of name; an entry the filter excludes is never *)
(* executed, recorded or counted; a directory that does not exist is       *)
(* fatal.                                                                  *)
(***************************************************************************)
C17_MigrationSource ==
    /\ Discovered =>
          /\ \A name \in Names :
                (\E i \in DOMAIN files : files[i] = name) <=>
                    (Eligible(name) /\ \E k \in DOMAIN dirEntries :
                                           dirEntries[k] = name)
          /\ \A i, j \in DOMAIN files : i < j => NameLess(files[i], files[j])
    /\ \A k \in DOMAIN dirEntries :
          ~Eligible(dirEntries[k]) =>
              /\ dirEntries[k] \notin examined \cup skippedFiles
              /\ dirEntries[k] \notin RecordedNames(rows)
              /\ schema[dirEntries[k]] = 0
              /\ \A i \in DOMAIN runLog : runLog[i].file # dirEntries[k]
    /\ RunReturned =>
          result.executed + result.skipped
              = Cardinality({name \in Range(dirEntries) : Eligible(name)})
    /\ (~dirExists /\ runs > 0) =>
          /\ ~Discovered
          /\ pc \notin {"query", "loop", "txRaw", "txInsert", "txCommit",
                        "returned", "cleaned"}
          /\ result = NoResult
          /\ LastCall = Call("existsSync", "false") =>
                /\ pc \in {"exited", "idle"}
                /\ pc = "exited" => exitCode = 1

\* the directory holds a private file beside two migrations; both were
\* executed and the run has returned
C17_Witness ==
    /\ Discovered
    /\ "_draft.sql" \in Range(dirEntries)
    /\ pc = "returned"
    /\ result = [executed |-> 2, skipped |-> 0]


(***************************************************************************)
(* C18. Connection release on all exit paths: an invocation of the         *)
(* workflow that opened the adapter's connection has called disconnect on  *)
(* it by the time it is over, when run() returned a summary and when run() *)
(* failed alike.                                                           *)
(***************************************************************************)
C18_ReleasedOnEveryExit ==
    (pc = "exited" /\ opened > 0) =>
        /\ "disconnect" \in OpsCalled
        /\ sql = "null"


\* the positions of run() after connect(), and of its caller holding what
\* run() gave back or threw
Connected ==
    pc \in {"test", "ensure", "bootstrap", "discover", "query", "loop", "txRaw",
            "txInsert", "txCommit", "returned", "threw"}

\* the current run() is a further one on a runner whose adapter was connected
Rerun == calls # <<>> /\ calls[1] = Call("connect", "kept")

(***************************************************************************)
(* C19. run() never disconnects: during run() and after it has returned    *)
(* the adapter holds its client; the only call that releases it is the     *)
(* disconnect of cleanup(); a further run() on the same runner uses the    *)
(* client the first one opened, and is a run like any other: it counts     *)
(* every discovered file, and when nothing fails it skips them all.        *)
(***************************************************************************)
C19_RunKeepsConnection ==
    /\ Connected =>
          /\ sql # "null"
          /\ opened = 1
          /\ "disconnect" \notin OpsCalled
    /\ "disconnect" \in OpsCalled =>
          /\ LastCall = Call("disconnect", "ok")
          /\ RunReturned
          /\ pc \in {"cleaned", "exited", "idle"}
    /\ (sql = "null" /\ opened > 0) => "disconnect" \in OpsCalled
    /\ Rerun =>
          /\ runs > 1
          /\ pc # "idle" => opened = 1
          /\ Connected => sql = "client"
          /\ RunReturned => result.executed + result.skipped = Len(files)
          /\ (RunReturned /\ faults = 0) =>
                result = [executed |-> 0, skipped |-> Len(files)]

\* a second run() on the same runner has returned, both files skipped
C19_Witness ==
    /\ Rerun
    /\ pc = "returned"
    /\ sql = "client"
    /\ result = [executed |-> 0, skipped |-> 2]


\* the Migration Records as every other session sees them: what an open
\* transaction has inserted is not among them before COMMIT
CommittedRows == IF tx.state = "open" THEN tx.rows ELSE rows

(***************************************************************************)
(* C20. Records are append-only: no step of the engine updates or deletes  *)
(* a Migration Record; the committed records only grow, the executed_at of *)
(* a record never changes, a name never has two records, and inserting a   *)
(* name that has a record changes nothing.                                 *)
(***************************************************************************)
C20_AppendOnly ==
    [][/\ \A r \in CommittedRows : r \in CommittedRows'
       /\ \A r, q \in rows' : r.migration_name = q.migration_name => r = q
       /\ (pc = "txInsert" /\ pc' = "txCommit"
               /\ tx.file \in RecordedNames(rows)) => rows' = rows]_vars

\* a file recorded by an earlier run was executed again, and the insert of
\* its name left its record as it was
C20_Witness ==
    /\ pc = "txCommit"
    /\ tx.state = "open"
    /\ rows = tx.rows
    /\ \E r \in rows : r.migration_name = tx.file /\ r.executed_at < runs


(***************************************************************************)
(* An operator at the tracking table, once, while no run is under way:     *)
(* the record of a file is deleted to have the file run again, or a record *)
(* is inserted for a file that was never applied to have it passed over.   *)
(***************************************************************************)
OperatorDelete ==
    /\ pc \in {"idle", "exited"}
    /\ runs < MaxRuns
    /\ operator = NoOperator
    /\ \E r \in rows :
         /\ rows' = rows \ {r}
         /\ operator' = [op |-> "delete", name |-> r.migration_name,
                         at |-> runs]
    /\ UNCHANGED <<srcVars, runners, creations, legacy,
                   table, schema, sql, opened, tx, pc,
                   localVars, idx, outVars, error, stderr, histVars, runLog,
                   examined, skippedFiles, faults, failedFile, calls>>

OperatorInsert ==
    /\ pc \in {"idle", "exited"}
    /\ runs < MaxRuns
    /\ operator = NoOperator
    /\ table
    /\ \E name \in MigrationNames(dirEntries) \ {BOOTSTRAP} :
         /\ name \notin RecordedNames(rows)
         /\ schema[name] = 0
         /\ rows' = rows \cup {[migration_name |-> name, executed_at |-> runs]}
         /\ operator' = [op |-> "insert", name |-> name, at |-> runs]
    /\ UNCHANGED <<srcVars, runners, creations, legacy,
                   table, schema, sql, opened, tx, pc,
                   localVars, idx, outVars, error, stderr, histVars, runLog,
                   examined, skippedFiles, faults, failedFile, calls>>

NextOperator ==
    \/ Next
    \/ OperatorDelete
    \/ OperatorInsert

SpecOperator == Init /\ [][NextOperator]_vars

\* the current run() is the first one after the operator did `kind`
FirstRunAfter(kind) == operator.op = kind /\ runs = operator.at + 1

\* the files whose SQL a transaction of the current run has executed
ExecInRun ==
    {runLog[i].file : i \in {k \in DOMAIN runLog : runLog[k].op = "exec"}}

(***************************************************************************)
(* C21. Operator control through the tracking table: after an operator     *)
(* deleted the record of a file, the next run() that returns has executed  *)
(* exactly the files without a record, that file among them, and its       *)
(* record is there again; after an operator inserted a record for a file   *)
(* not yet applied, the next run() that returns has skipped the file and   *)
(* not executed its SQL.                                                   *)
(***************************************************************************)
C21_OperatorControl ==
    /\ (FirstRunAfter("delete") /\ RunReturned) =>
          /\ ExecInRun = (Range(files) \ RecordedNames(atStart.rows))
                             \ {BOOTSTRAP}
          /\ operator.name \in ExecInRun
          /\ operator.name \in RecordedNames(rows)
          /\ schema[operator.name] = atStart.schema[operator.name] + 1
    /\ (FirstRunAfter("insert") /\ RunReturned) =>
          /\ operator.name \in skippedFiles
          /\ operator.name \notin ExecInRun
          /\ schema[operator.name] = 0

\* the same, for runs whose batch query did not fail
C21_NoQueryFailure ==
    (\A i \in DOMAIN calls : calls[i].op = "query" => calls[i].reply = "rows")
        => C21_OperatorControl


(***************************************************************************)
(* The process is killed while the transaction of a migration is open: the *)
(* backend loses the session and rolls the transaction back; nothing of    *)
(* the runner executes any more.                                           *)
(***************************************************************************)
\* the exit status of a process ended by SIGKILL
KilledCode == 128 + 9

Kill ==
    /\ pc \in {"txRaw", "txInsert", "txCommit"}
    /\ operator = NoOperator
    /\ table' = Rollback(tx, [table |-> table, rows |-> rows,
                              schema |-> schema]).table
    /\ rows' = Rollback(tx, [table |-> table, rows |-> rows,
                             schema |-> schema]).rows
    /\ schema' = Rollback(tx, [table |-> table, rows |-> rows,
                               schema |-> schema]).schema
    /\ tx' = [tx EXCEPT !.state = "rolledback"]
    /\ runLog' = Append(runLog, [op |-> "rollback", file |-> tx.file])
    /\ operator' = [op |-> "kill", name |-> tx.file, at |-> runs]
    /\ pc' = "exited"
    /\ exitCode' = KilledCode
    /\ UNCHANGED <<srcVars, runners, creations, legacy,
                   sql, opened, localVars, idx, result, error,
                   stderr, histVars, examined, skippedFiles, faults, failedFile,
                   calls>>

NextCrash ==
    \/ Next
    \/ Kill

SpecCrash == Init /\ [][NextCrash]_vars

\* every batch query of the current run was answered
QueriesAnswered ==
    \A i \in DOMAIN calls : calls[i].op = "query" => calls[i].reply = "rows"

(***************************************************************************)
(* C22. Crash safety: after a run was killed with the transaction of a     *)
(* migration open, that migration has no record and no visible effect and  *)
(* the records committed before are all there; the next run() that returns *)
(* has executed that migration and every other file without a record, in   *)
(* order, and no file that had a record.                                   *)
(***************************************************************************)
C22_CrashSafety ==
    /\ (operator.op = "kill" /\ runs = operator.at) =>
          /\ operator.name \notin RecordedNames(rows)
          /\ schema[operator.name] = 0
          /\ \A f \in ExecInRun \ {operator.name} : f \in RecordedNames(rows)
          /\ \A r \in atStart.rows : r \in rows
    /\ (FirstRunAfter("kill") /\ RunReturned) =>
          /\ ExecInRun = (Range(files) \ RecordedNames(atStart.rows))
                             \ {BOOTSTRAP}
          /\ operator.name \in ExecInRun
          /\ RecordedNames(rows) = Range(files) \ {BOOTSTRAP}
          /\ \A a, b \in ExecInRun : NameLess(a, b) => CommittedBefore(a, b)

\* the same, for runs whose batch query did not fail
C22_NoQueryFailure == QueriesAnswered => C22_CrashSafety


\* the files whose transaction the current run has committed
CommittedInRun ==
    {runLog[i].file : i \in {k \in DOMAIN runLog : runLog[k].op = "commit"}}

\* the files the loop of the current run does not skip: those the executed
\* set lacks, the bootstrap file aside (its relation exists by then)
Pending == (Range(files) \ executedSet) \ {BOOTSTRAP}

\* the loop of the current run has failed at a file
MigrationFailed == failedFile # NoFile

(***************************************************************************)
(* C23. Failure outcome is a prefix, as stated: a run() that ends because  *)
(* a migration failed has applied a non-empty prefix of the pending        *)
(* migrations, exactly the pending files that sort before the failing one. *)
(***************************************************************************)
C23_NonEmptyPrefix ==
    MigrationFailed =>
        /\ CommittedInRun # {}
        /\ CommittedInRun = {f \in Pending : NameLess(f, failedFile)}

(***************************************************************************)
(* C23, amended. A run() that ends because a migration failed has          *)
(* committed exactly the pending files that sort before the failing one,   *)
(* in ascending order; they are none when the first pending file is the    *)
(* one that fails.  It returns no summary.                                 *)
(***************************************************************************)
C23_PrefixMaybeEmpty ==
    MigrationFailed =>
        /\ CommittedInRun = {f \in Pending : NameLess(f, failedFile)}
        /\ failedFile \notin CommittedInRun
        /\ \A a, b \in CommittedInRun : NameLess(a, b) => CommittedBefore(a, b)
        /\ \A f \in CommittedInRun : f \in RecordedNames(rows)
        /\ RunFailed

\* the second of three pending files failed: one file is committed
C23_Witness ==
    /\ MigrationFailed
    /\ pc = "threw"
    /\ Cardinality(Pending) = 3
    /\ Cardinality(CommittedInRun) = 1


(***************************************************************************)
(* Two runner instances in run() at the same time, on the same source and  *)
(* on a database that has its tracking relation.  table, rows and schema   *)
(* are the committed state; what a transaction has done shows at COMMIT.   *)
(* An INSERT of a name that another open transaction has inserted waits    *)
(* for that transaction to end (the unique index on migration_name).       *)
(***************************************************************************)
PeerFiles == getMigrationFiles(dirEntries)

\* NOW() as the session of instance p sees it
Stamp(p) == IF p = "A" THEN 1 ELSE 2

InitPeers == Init /\ dirExists /\ table

\* the one runner of the other specifications stands by
RunnerFrame ==
    UNCHANGED <<srcVars, operator, creations, legacy,
                table, sql, opened, tx, pc, localVars, idx,
                outVars, error, stderr, histVars, runLog, examined,
                skippedFiles, faults, failedFile, calls>>

\* run() steps 1 to 4: the relation is there, the batch query answers
RunnerQuery(p) ==
    /\ RunnerFrame
    /\ runners[p].pc = "idle"
    /\ runners' = [runners EXCEPT ![p] =
          [@ EXCEPT !.pc = "loop",
                    !.executedSet = SelectExecuted(rows, Range(PeerFiles)),
                    !.idx = 1]]
    /\ UNCHANGED <<rows, schema>>

\* processMigrationFiles: shouldSkipMigration, or sql.begin
RunnerExamine(p) ==
    /\ RunnerFrame
    /\ runners[p].pc = "loop"
    /\ runners[p].idx <= Len(PeerFiles)
    /\ LET file == PeerFiles[runners[p].idx]
       IN IF shouldSkipMigration(file, runners[p].executedSet, table)
          THEN runners' = [runners EXCEPT ![p] =
                   [@ EXCEPT !.skippedCount = @ + 1,
                             !.skipped = @ \cup {file},
                             !.idx = @ + 1]]
          ELSE runners' = [runners EXCEPT ![p] =
                   [@ EXCEPT !.pc = "txRaw", !.file = file]]
    /\ UNCHANGED <<rows, schema>>

\* executeMigration: executeRaw inside the transaction; an error rolls back
\* and is rethrown by the catch block of the loop
RunnerExecuteRaw(p) ==
    /\ RunnerFrame
    /\ runners[p].pc = "txRaw"
    /\ IF RawSqlError(runners[p].file, table, invalid) # ""
       THEN runners' = [runners EXCEPT ![p] =
                [@ EXCEPT !.pc = "threw", !.failed = runners[p].file]]
       ELSE runners' = [runners EXCEPT ![p] = [@ EXCEPT !.pc = "txInsert"]]
    /\ UNCHANGED <<rows, schema>>

\* executeMigration: insertMigrationRecord inside the transaction
RunnerInsertRecord(p) ==
    /\ RunnerFrame
    /\ runners[p].pc = "txInsert"
    /\ \A q \in Instances \ {p} :
          ~(runners[q].pc = "txCommit" /\ runners[q].inserts
                /\ runners[q].file = runners[p].file)
    /\ runners' = [runners EXCEPT ![p] =
          [@ EXCEPT !.pc = "txCommit",
                    !.inserts = (insertMigrationRecord(rows, runners[p].file,
                                                       Stamp(p)) # rows)]]
    /\ UNCHANGED <<rows, schema>>

\* COMMIT, executedCount++
RunnerCommit(p) ==
    /\ RunnerFrame
    /\ runners[p].pc = "txCommit"
    /\ schema' = ApplySql(runners[p].file, schema)
    /\ rows' = IF runners[p].inserts
               THEN insertMigrationRecord(rows, runners[p].file, Stamp(p))
               ELSE rows
    /\ runners' = [runners EXCEPT ![p] =
          [@ EXCEPT !.pc = "loop",
                    !.committed = @ \cup {runners[p].file},
                    !.executedCount = @ + 1,
                    !.idx = @ + 1,
                    !.inserts = FALSE,
                    !.file = NoFile]]

\* the loop is over, run() returns the counts
RunnerSummarize(p) ==
    /\ RunnerFrame
    /\ runners[p].pc = "loop"
    /\ runners[p].idx > Len(PeerFiles)
    /\ runners' = [runners EXCEPT ![p] =
          [@ EXCEPT !.pc = "returned",
                    !.result = [executed |-> runners[p].executedCount,
                                skipped |-> runners[p].skippedCount]]]
    /\ UNCHANGED <<rows, schema>>

NextPeers ==
    \/ \E p \in Instances : RunnerQuery(p)
    \/ \E p \in Instances : RunnerExamine(p)
    \/ \E p \in Instances : RunnerExecuteRaw(p)
    \/ \E p \in Instances : RunnerInsertRecord(p)
    \/ \E p \in Instances : RunnerCommit(p)
    \/ \E p \in Instances : RunnerSummarize(p)

SpecPeers == InitPeers /\ [][NextPeers]_vars

(***************************************************************************)
(* C24. Unique records under concurrency: in every interleaving of two     *)
(* runner instances the tracking table holds at most one record for a      *)
(* name, and an insert that meets a record does not fail its transaction:  *)
(* the transaction commits, and the only files that fail are those whose   *)
(* SQL is invalid.                                                         *)
(***************************************************************************)
C24_UniqueRecords ==
    /\ \A r, q \in rows : r.migration_name = q.migration_name => r = q
    /\ \A p \in Instances :
          /\ runners[p].failed # NoFile => runners[p].failed \in invalid
          /\ (runners[p].pc = "txCommit" /\ ~runners[p].inserts) =>
                runners[p].file \in RecordedNames(rows)
          /\ \A f \in runners[p].committed : f \in RecordedNames(rows)

\* an instance has returned after committing a file whose record is the
\* other instance's
C24_Witness ==
    \E p \in Instances :
        /\ runners[p].pc = "returned"
        /\ \E f \in runners[p].committed :
              \E r \in rows : r.migration_name = f /\ r.executed_at # Stamp(p)


(***************************************************************************)
(* C25. Known concurrency gap: nothing in the engine serialises two        *)
(* instances.  An instance executes every file its executed set lacks,     *)
(* whatever has been committed since its batch query, so the SQL of a file *)
(* is applied once by each instance that commits it; the interleaving in   *)
(* which both instances obtain sets lacking the same file and both commit  *)
(* its SQL is reachable.                                                   *)
(***************************************************************************)
C25_NoSerialization ==
    /\ \A f \in Names :
          schema[f] = Cardinality({p \in Instances : f \in runners[p].committed})
    /\ \A p \in Instances :
          /\ runners[p].skipped \subseteq runners[p].executedSet \cup {BOOTSTRAP}
          /\ runners[p].committed \cap runners[p].executedSet = {}
          /\ runners[p].failed # NoFile => runners[p].failed \in invalid
          /\ runners[p].pc = "returned" =>
                /\ runners[p].committed =
                      (Range(PeerFiles) \ runners[p].executedSet) \ {BOOTSTRAP}
                /\ runners[p].result.executed
                      = Cardinality(runners[p].committed)

\* both instances have returned, both have committed the SQL of one file:
\* it was applied twice and has one record
C25_Witness ==
    \E f \in Names :
        /\ schema[f] = 2
        /\ \A p \in Instances :
              runners[p].pc = "returned" /\ f \in runners[p].committed
        /\ Cardinality({r \in rows : r.migration_name = f}) = 1


(***************************************************************************)
(* AdapterFactory.create on any identifier.  An identifier is the tuple of *)
(* its code units, so that toLowerCase is computed.                        *)
(***************************************************************************)
\* 'supabase'
Supabase == <<115, 117, 112, 97, 98, 97, 115, 101>>

\* the identifiers a caller passes: supabase, Supabase, SUPABASE, supaBase,
\* mysql, 'supabase ' and the empty string
Identifiers ==
    {Supabase,
     <<83, 117, 112, 97, 98, 97, 115, 101>>,
     <<83, 85, 80, 65, 66, 65, 83, 69>>,
     <<115, 117, 112, 97, 66, 97, 115, 101>>,
     <<109, 121, 115, 113, 108>>,
     <<115, 117, 112, 97, 98, 97, 115, 101, 32>>,
     <<>>}

ConnectionStrings == {"postgresql://one", "postgresql://two"}

\* String.prototype.toLowerCase on the letters A to Z
\* (variant: the identifier is compared as it is)
ToLowerCaseM1(units) == units
ToLowerCase(units) ==
    [i \in DOMAIN units |->
        IF units[i] \in 65..90 THEN units[i] + 32 ELSE units[i]]

NoAdapter == [class |-> "(none)"]

\* AdapterFactory.create: the adapter, or NoAdapter where errorHandler is
\* called; new SupabaseDatabaseAdapter sets this.sql = null
create(folderName, connectionString) ==
    IF ToLowerCase(folderName) = Supabase
    THEN [class |-> "SupabaseDatabaseAdapter", folderName |-> folderName,
          connectionString |-> connectionString, sql |-> "null"]
    ELSE NoAdapter

\* executeMigrationWorkflow step 1, in a process that never runs migrations
FactoryCreate ==
    /\ pc = "idle"
    /\ Len(creations) < MaxCreates
    /\ \E folderName \in Identifiers, connectionString \in ConnectionStrings :
         /\ creations' = Append(creations,
               [folderName |-> folderName,
                connectionString |-> connectionString,
                adapter |-> create(folderName, connectionString)])
         /\ IF create(folderName, connectionString) = NoAdapter
            THEN errorHandler
            ELSE UNCHANGED <<pc, exitCode>>
    /\ UNCHANGED <<srcVars, operator, runners, legacy, dbVars, sql, opened, tx,
                   localVars, idx, result, error, stderr, histVars, runLog,
                   examined, skippedFiles, faults, failedFile, calls>>

\* the process before step 1; the source and the database play no part
InitFactory == Init /\ dirExists /\ dirEntries = <<>> /\ table

NextFactory == FactoryCreate

SpecFactory == InitFactory /\ [][NextFactory]_vars

\* the identifier is 'supabase' in some mix of upper and lower case
SpellsSupabase(units) ==
    /\ Len(units) = Len(Supabase)
    /\ \A i \in DOMAIN units :
          units[i] = Supabase[i] \/ units[i] = Supabase[i] - 32

(***************************************************************************)
(* C26. Adapter Factory: create returns an adapter exactly for the         *)
(* identifiers that spell 'supabase' in any case; the adapter holds the    *)
(* connection string it was given and is not connected; for any other      *)
(* identifier no adapter is returned and the process ends; no connection   *)
(* is opened by any call; what a call returns depends on its arguments     *)
(* alone.                                                                  *)
(***************************************************************************)
C26_AdapterFactory ==
    /\ \A i \in DOMAIN creations :
          IF SpellsSupabase(creations[i].folderName)
          THEN /\ creations[i].adapter.class = "SupabaseDatabaseAdapter"
               /\ creations[i].adapter.connectionString
                     = creations[i].connectionString
               /\ creations[i].adapter.sql = "null"
          ELSE /\ creations[i].adapter = NoAdapter
               /\ i = Len(creations)
               /\ pc = "exited"
               /\ exitCode = 1
    /\ \A i, j \in DOMAIN creations :
          (creations[i].folderName = creations[j].folderName
              /\ creations[i].connectionString = creations[j].connectionString)
              => creations[i].adapter = creations[j].adapter
    /\ opened = 0
    /\ sql = "null"
    /\ calls = <<>>

\* an adapter was made for 'SUPABASE', and then 'mysql' ended the process
C26_Witness ==
    /\ Len(creations) = 2
    /\ creations[1].folderName = <<83, 85, 80, 65, 66, 65, 83, 69>>
    /\ creations[1].adapter.class = "SupabaseDatabaseAdapter"
    /\ creations[2].adapter = NoAdapter
    /\ pc = "exited"


(***************************************************************************)
(* The adapter on its own: connect, disconnect and testConnection called   *)
(* in any order.  Each entry of calls keeps the client before and after    *)
(* and, for testConnection, whether SELECT 1 went through.                 *)
(***************************************************************************)
AdapterCall(op, reply, after, roundTrip) ==
    [op |-> op, reply |-> reply, before |-> sql, after |-> after,
     roundTrip |-> roundTrip]

\* everything but the adapter stands by
AdapterFrame ==
    UNCHANGED <<srcVars, sideVars, dbVars, tx, pc, localVars, idx, outVars,
                error, stderr, histVars, runLog, examined, skippedFiles,
                faults, failedFile>>

AdapterConnect ==
    /\ pc = "idle"
    /\ Len(calls) < MaxCalls
    /\ sql' = connect(sql)
    /\ opened' = IF sql' # sql THEN opened + 1 ELSE opened
    /\ calls' = Append(calls,
          AdapterCall("connect", IF sql' # sql THEN "opened" ELSE "kept",
                      sql', TRUE))
    /\ AdapterFrame

AdapterDisconnect ==
    /\ pc = "idle"
    /\ Len(calls) < MaxCalls
    /\ sql' = IF sql # "null" THEN disconnect(sql) ELSE sql
    /\ calls' = Append(calls,
          AdapterCall("disconnect", IF sql # "null" THEN "ended" ELSE "noop",
                      sql', TRUE))
    /\ UNCHANGED opened
    /\ AdapterFrame

AdapterTestConnection ==
    /\ pc = "idle"
    /\ Len(calls) < MaxCalls
    /\ \E roundTrip \in BOOLEAN :
         calls' = Append(calls,
             AdapterCall("testConnection", testConnection(sql, roundTrip),
                         sql, roundTrip))
    /\ UNCHANGED <<sql, opened>>
    /\ AdapterFrame

InitAdapter == Init /\ dirExists /\ dirEntries = <<>> /\ table

NextAdapter ==
    \/ AdapterConnect
    \/ AdapterDisconnect
    \/ AdapterTestConnection

SpecAdapter == InitAdapter /\ [][NextAdapter]_vars

\* the clients the adapter has ended
Ended ==
    Cardinality({i \in DOMAIN calls : calls[i].op = "disconnect"
                                          /\ calls[i].reply = "ended"})

(***************************************************************************)
(* C27. connect() is idempotent: called on an adapter that has a client it *)
(* changes nothing, and it neither replaces the client nor makes a second  *)
(* one; after any sequence of connect and disconnect calls the adapter     *)
(* owns at most one client, and the client holds at most one connection.   *)
(***************************************************************************)
C27_ConnectIdempotent ==
    /\ \A i \in DOMAIN calls :
          (calls[i].op = "connect" /\ calls[i].before # "null") =>
              /\ calls[i].after = calls[i].before
              /\ calls[i].reply = "kept"
    /\ opened - Ended = (IF sql # "null" THEN 1 ELSE 0)
    /\ (opened - Ended) * PoolSize <= 1

\* connect, connect, disconnect, connect: the second call kept the client
C27_Witness ==
    /\ Len(calls) = 4
    /\ calls[2].op = "connect"
    /\ calls[2].reply = "kept"
    /\ calls[3].reply = "ended"
    /\ calls[4].reply = "opened"
    /\ opened = 2

(***************************************************************************)
(* C28. disconnect() is safe in any state: on an adapter without a client  *)
(* (never connected, or disconnected before) it does nothing; on an        *)
(* adapter with a client it ends the client and leaves the adapter without *)
(* one, and a connect() after it makes a fresh client.                     *)
(***************************************************************************)
C28_DisconnectSafe ==
    \A i \in DOMAIN calls :
        /\ calls[i].op = "disconnect" =>
              /\ calls[i].after = "null"
              /\ calls[i].reply = (IF calls[i].before = "null" THEN "noop"
                                                               ELSE "ended")
        /\ (calls[i].op = "connect" /\ i > 1 /\ calls[i - 1].op = "disconnect")
              => calls[i].reply = "opened" /\ calls[i].after # "null"

\* disconnect before any connect, then connect, disconnect twice
C28_Witness ==
    /\ Len(calls) = 4
    /\ calls[1].op = "disconnect" /\ calls[1].reply = "noop"
    /\ calls[2].reply = "opened"
    /\ calls[3].reply = "ended"
    /\ calls[4].op = "disconnect" /\ calls[4].reply = "noop"

(***************************************************************************)
(* C29. testConnection() never raises: it answers false on an adapter      *)
(* without a client and false when the round trip fails, true only when    *)
(* the round trip goes through; no error escapes, and the client is the    *)
(* same after the call.                                                    *)
(***************************************************************************)
C29_TestConnectionTotal ==
    \A i \in DOMAIN calls :
        calls[i].op = "testConnection" =>
            /\ calls[i].reply \in {"true", "false"}
            /\ calls[i].reply = "true" <=>
                  (calls[i].before # "null" /\ calls[i].roundTrip)
            /\ calls[i].after = calls[i].before

\* false without a client, then false and true with one
C29_Witness ==
    /\ Len(calls) = 4
    /\ calls[1].op = "testConnection" /\ calls[1].reply = "false"
    /\ calls[2].op = "connect"
    /\ calls[3].op = "testConnection" /\ calls[3].reply = "false"
    /\ calls[4].op = "testConnection" /\ calls[4].reply = "true"
    /\ sql # "null"


\* a call of the current run whose failure the engine does not recover from
Unrecovered(call) ==
    \/ call \in {Call("testConnection", "false"), Call("existsSync", "false")}
    \/ call = Call("tableExists", "false") /\ BOOTSTRAP \notin Range(dirEntries)
    \/ /\ call.reply \notin PlainReplies
       /\ ~(call.op = "query" /\ IncludesDoesNotExist(call.reply))

(***************************************************************************)
(* C30. Exit codes of the command-line entry point: the process ends with  *)
(* code 0 exactly when the workflow completed, that is run() returned its  *)
(* summary of executed and skipped counts and cleanup followed; it ends    *)
(* with a non-zero code on every error that was not recovered, whether a   *)
(* missing directory, a failed connection or a failed execution.           *)
(***************************************************************************)
C30_ExitCodes ==
    pc = "exited" =>
        /\ exitCode \in {0, 1}
        /\ exitCode = 0 <=>
              /\ result # NoResult
              /\ result.executed >= 0 /\ result.skipped >= 0
              /\ result.executed + result.skipped = Len(files)
              /\ LastCall = Call("disconnect", "ok")
        /\ (\E i \in DOMAIN calls : Unrecovered(calls[i])) => exitCode # 0
        /\ RunFailed => exitCode # 0

\* after a run that completed, a second run whose migration the backend
\* rejected: run() threw and the process ended with code 1
C30_Witness ==
    /\ pc = "exited"
    /\ exitCode = 1
    /\ runs = 2
    /\ afterSuccess
    /\ error # NoError
    /\ failedFile # NoFile


(***************************************************************************)
(* C31. Bootstrap re-verification: when the ensure step has run the        *)
(* bootstrap file because the tracking relation was absent, the presence   *)
(* of the relation is checked again (tableExists) before the batch query,  *)
(* and the batch query is issued only when that check found the relation.  *)
(***************************************************************************)
C31_BootstrapReverified ==
    \A i, q \in DOMAIN calls :
        (/\ i < q
         /\ calls[i] = Call("executeRaw", "ok")
         /\ calls[q].op = "query"
         /\ \A k \in (i + 1)..(q - 1) : calls[k].op # "query")
        => \E j \in (i + 1)..(q - 1) : calls[j] = Call("tableExists", "true")


\* the batch queries among the calls of the current run
Queries == {i \in DOMAIN calls : calls[i].op = "query"}

\* the calls the apply loop makes for a file it executes
TxOps == {"transaction", "tx.executeRaw", "tx.insertMigrationRecord"}

(***************************************************************************)
(* C32. Single batch query: a run() that discovers files issues exactly    *)
(* one adapter.query, for the whole list of discovered names, before the   *)
(* first file is processed, and no query afterwards, in the apply loop or  *)
(* on the recovery path; a run() that discovers no file issues none.       *)
(***************************************************************************)
C32_SingleBatchQuery ==
    /\ Cardinality(Queries) <= 1
    /\ Len(files) = 0 => Queries = {}
    /\ (examined # {} \/ (RunReturned /\ Len(files) > 0))
          => Cardinality(Queries) = 1
    /\ \A q \in Queries : \A j \in DOMAIN calls :
          calls[j].op \in TxOps => q < j
    /\ (pc = "loop" /\ LastCall = Call("query", "rows"))
          => executedSet = RecordedNames(rows) \cap Range(files)

\* a run that recovered from the failed query and executed two files with
\* no second query
C32_Witness ==
    /\ RunReturned
    /\ pc = "returned"
    /\ \E q \in Queries : IncludesDoesNotExist(calls[q].reply)
    /\ result.executed >= 2
    /\ "tableExists" \in {calls[j].op : j \in {k \in DOMAIN calls : \A q \in Queries : k > q}}


\* the files whose transaction is open after the first n steps of the run
OpenAt(n) ==
    {runLog[b].file : b \in {k \in 1..n :
        /\ runLog[k].op = "begin"
        /\ \A e \in (k + 1)..n :
              ~(runLog[e].op \in {"commit", "rollback"}
                  /\ runLog[e].file = runLog[k].file)}}

(***************************************************************************)
(* C33. No overlapping transactions: within one runner at most one         *)
(* migration transaction is open at any time; the transaction of a file    *)
(* has committed or rolled back before the skip check or the transaction   *)
(* of the next file begins, and none is open when the run is over.         *)
(***************************************************************************)
C33_NoOverlap ==
    /\ \A n \in 0..Len(runLog) : Cardinality(OpenAt(n)) <= 1
    /\ \A n \in DOMAIN runLog :
          runLog[n].op = "begin" => OpenAt(n - 1) = {}
    /\ (pc = "loop" \/ RunOver) => OpenAt(Len(runLog)) = {}
    /\ pc \in {"txRaw", "txInsert", "txCommit"} =>
          /\ OpenAt(Len(runLog)) = {files[idx]}
          /\ tx.state = "open" /\ tx.file = files[idx]

\* a later transaction of a run is open; the ones before it, one of them
\* committed, were over before it began
C33_Witness ==
    /\ pc = "txInsert"
    /\ Cardinality({n \in DOMAIN runLog : runLog[n].op = "begin"}) >= 2
    /\ \E n \in DOMAIN runLog : runLog[n].op = "commit"
    /\ OpenAt(Len(runLog)) = {tx.file}


(***************************************************************************)
(* C34. Summary accounting: whenever run() has returned a summary,         *)
(* executed is the number of files whose transaction committed in this     *)
(* run, skipped is the number of files skipped, every discovered file is   *)
(* counted in exactly one of the two, and executed + skipped is the number *)
(* of discovered files.                                                    *)
(***************************************************************************)
C34_SummaryAccounting ==
    RunReturned =>
        /\ result.executed = Cardinality(CommittedInRun)
        /\ result.skipped = Cardinality(skippedFiles)
        /\ CommittedInRun \cap skippedFiles = {}
        /\ CommittedInRun \cup skippedFiles = Range(files)
        /\ \A f \in CommittedInRun :
              Cardinality({k \in DOMAIN runLog :
                  runLog[k] = [op |-> "commit", file |-> f]}) = 1
        /\ result.executed + result.skipped = Len(files)

\* a summary that counts both executed and skipped files
C34_Witness ==
    /\ RunReturned
    /\ pc = "returned"
    /\ result.executed >= 1
    /\ result.skipped >= 2


(***************************************************************************)
(* Termination of run(): every adapter call returns or fails, so a run     *)
(* that is under way takes its next step.                                  *)
(***************************************************************************)
Running ==
    pc \in {"connect", "test", "ensure", "bootstrap", "discover", "query",
            "loop", "txRaw", "txInsert", "txCommit"}

\* the listing order does not matter to termination: one listing for each
\* set of entries, the one readdirSync gives on most file systems
InitLive ==
    /\ Init
    /\ \A i, j \in DOMAIN dirEntries :
          i < j => NameLess(dirEntries[i], dirEntries[j])

SpecLive == InitLive /\ [][Next]_vars /\ WF_vars(Running /\ Next)

\* the place of a step in run(): connect, ensure, discover, diff, apply
StepOrder(p) ==
    CASE p = "connect" -> 1
      [] p = "test" -> 2
      [] p = "ensure" -> 3
      [] p = "bootstrap" -> 4
      [] p = "discover" -> 5
      [] p = "query" -> 6
      [] p \in {"loop", "txRaw", "txInsert", "txCommit"} -> 7
      [] OTHER -> 8

\* how far the run has come: the steps in order, the ensure step of the
\* recovery path after the query, then the files one by one
Progress ==
    IF ~Running THEN 8 * (MaxFiles + 4)
    ELSE IF StepOrder(pc) = 7
    THEN 8 * (idx + 1)
           + (CASE pc = "loop" -> 0 [] pc = "txRaw" -> 1
                [] pc = "txInsert" -> 2 [] pc = "txCommit" -> 3)
    ELSE IF ret = "loop" THEN 4 + StepOrder(pc)
    ELSE StepOrder(pc)

(***************************************************************************)
(* C35. Termination: every run() that is under way comes to an end,        *)
(* returning its summary or failing.  Each step of it moves forward: the   *)
(* only step back is the one from the batch query to the ensure step on    *)
(* the recovery path, taken at most once, and each discovered file is      *)
(* examined and executed at most once.                                     *)
(***************************************************************************)
C35_Termination ==
    /\ [][Running => Progress' > Progress]_vars
    /\ [][(Running /\ Running' /\ StepOrder(pc') < StepOrder(pc))
            => (pc = "query" /\ pc' = "ensure"
                  /\ ret = "discover" /\ ret' = "loop")]_vars
    /\ [](\A f \in Names :
            Cardinality({k \in DOMAIN runLog :
                runLog[k] = [op |-> "begin", file |-> f]}) <= 1)
    /\ [](Running => idx <= Len(files) + 1)
    /\ (Running ~> RunOver)

\* a run that went back to the ensure step once, examined its files and ended
C35_Witness ==
    /\ RunOver
    /\ pc = "threw"
    /\ \E q \in Queries : IncludesDoesNotExist(calls[q].reply)
    /\ Cardinality(examined) >= 2
    /\ Cardinality(CommittedInRun) >= 1


(***************************************************************************)
(* The replaced script subapase/run-migrations.js, which asks for each     *)
(* file whether it has a record.  It is run after run() is over, on the    *)
(* database as run() found it, from the same source and with the same      *)
(* answer of the backend to its first membership query.                    *)
(***************************************************************************)
LegacyFrame ==
    UNCHANGED <<srcVars, operator, runners, creations, dbVars, sql, opened,
                tx, pc, localVars, idx, outVars, error, stderr, histVars,
                runLog, examined, skippedFiles, faults, failedFile, calls>>

\* the batch query of the current run failed on a 'does not exist' message
QueryRecovered ==
    \E i \in DOMAIN calls :
        calls[i].op = "query" /\ IncludesDoesNotExist(calls[i].reply)

\* the catch blocks of the script: console.error and process.exit(1)
LegacyExit(l) == [l EXCEPT !.pc = "done", !.exitCode = 1]

\* runMigrations: the directory exists, postgres(...), SELECT 1
LegacyStart ==
    /\ RunOver
    /\ runs > 0
    /\ legacy.run # runs
    /\ dirExists
    /\ BOOTSTRAP \in Range(dirEntries)
    /\ faults = (IF QueryRecovered THEN 1 ELSE 0)
    /\ legacy' = [pc |-> "ensure", run |-> runs, table |-> atStart.table,
                  rows |-> atStart.rows, schema |-> atStart.schema,
                  files |-> <<>>, idx |-> 0, executedCount |-> 0,
                  skippedCount |-> 0, log |-> <<>>,
                  checkFails |-> QueryRecovered, result |-> NoResult,
                  exitCode |-> NoCode]
    /\ LegacyFrame

\* runMigrations: the tracking relation is looked up and, when absent, made
\* from the bootstrap file or by CREATE TABLE IF NOT EXISTS; then the
\* directory is read, filtered and sorted
LegacyEnsure ==
    /\ legacy.pc = "ensure"
    /\ legacy.run = runs
    /\ RunOver
    /\ legacy' =
         IF legacy.table
         THEN [legacy EXCEPT !.files = getMigrationFiles(dirEntries),
                             !.idx = 1, !.pc = "loop"]
         ELSE IF BOOTSTRAP \notin Range(dirEntries)
         THEN [legacy EXCEPT !.table = TRUE,
                             !.files = getMigrationFiles(dirEntries),
                             !.idx = 1, !.pc = "loop"]
         ELSE IF RawSqlError(BOOTSTRAP, legacy.table, invalid) # ""
         THEN LegacyExit(legacy)
         ELSE [legacy EXCEPT !.table = TRUE,
                             !.schema = ApplySql(BOOTSTRAP, legacy.schema),
                             !.log = Append(legacy.log,
                                            [op |-> "raw", file |-> BOOTSTRAP]),
                             !.files = getMigrationFiles(dirEntries),
                             !.idx = 1, !.pc = "loop"]
    /\ LegacyFrame

\* the script's membership check for one file went wrong on a 'does not
\* exist' message: the bootstrap file is run again, then the check repeated
LegacyRecheck(l) ==
    IF BOOTSTRAP \in Range(dirEntries)
    THEN IF RawSqlError(BOOTSTRAP, l.table, invalid) # ""
         THEN LegacyExit(l)
         ELSE [l EXCEPT !.table = TRUE,
                        !.schema = ApplySql(BOOTSTRAP, l.schema),
                        !.log = Append(l.log, [op |-> "raw", file |-> BOOTSTRAP]),
                        !.checkFails = FALSE]
    ELSE [l EXCEPT !.checkFails = FALSE]

\* the script's sql.begin for one file: its SQL and its record, or nothing
LegacyTransaction(l, file) ==
    IF RawSqlError(file, l.table, invalid) # ""
    THEN LegacyExit(l)
    ELSE [l EXCEPT !.schema = ApplySql(file, l.schema),
                   !.rows = insertMigrationRecord(l.rows, file, l.run),
                   !.log = Append(l.log, [op |-> "commit", file |-> file]),
                   !.executedCount = l.executedCount + 1,
                   !.idx = l.idx + 1]

\* the script's check and transaction for a file that is not the bootstrap
LegacyCheckAndRun(l, file) ==
    IF l.pc = "done" THEN l
    ELSE IF file \in RecordedNames(l.rows)
    THEN [l EXCEPT !.skippedCount = l.skippedCount + 1, !.idx = l.idx + 1]
    ELSE LegacyTransaction(l, file)

\* one turn of the script's loop over the files
LegacyFile ==
    /\ legacy.pc = "loop"
    /\ legacy.run = runs
    /\ RunOver
    /\ legacy.idx <= Len(legacy.files)
    /\ legacy' =
         LET file == legacy.files[legacy.idx] IN
         IF file = BOOTSTRAP
         THEN IF legacy.table
              THEN [legacy EXCEPT !.skippedCount = legacy.skippedCount + 1,
                                  !.idx = legacy.idx + 1]
              ELSE IF RawSqlError(file, legacy.table, invalid) # ""
              THEN LegacyExit(legacy)
              ELSE [legacy EXCEPT
                      !.table = TRUE,
                      !.schema = ApplySql(file, legacy.schema),
                      !.log = Append(legacy.log, [op |-> "raw", file |-> file]),
                      !.executedCount = legacy.executedCount + 1,
                      !.idx = legacy.idx + 1]
         ELSE IF legacy.checkFails
         THEN LegacyCheckAndRun(LegacyRecheck(legacy), file)
         ELSE LegacyCheckAndRun(legacy, file)
    /\ LegacyFrame

\* the script's summary; the process ends when the client has been ended
LegacySummary ==
    /\ legacy.pc = "loop"
    /\ legacy.run = runs
    /\ RunOver
    /\ legacy.idx > Len(legacy.files)
    /\ legacy' = [legacy EXCEPT
                    !.result = [executed |-> legacy.executedCount,
                                skipped |-> legacy.skippedCount],
                    !.pc = "done", !.exitCode = 0]
    /\ LegacyFrame

\* sources that hold the bootstrap file, one listing for each set of entries
InitLegacy ==
    /\ Init
    /\ BOOTSTRAP \in Range(dirEntries)
    /\ \A i, j \in DOMAIN dirEntries :
          i < j => NameLess(dirEntries[i], dirEntries[j])

NextLegacy ==
    \/ Next
    \/ LegacyStart
    \/ LegacyEnsure
    \/ LegacyFile
    \/ LegacySummary

SpecLegacy == InitLegacy /\ [][NextLegacy]_vars

\* the files whose SQL the current run executed for good, in order
Executions ==
    SelectSeq(runLog, LAMBDA e : e.op \in {"raw", "commit"})

\* both programs have run on the database as the current run() found it
BothOver == RunOver /\ legacy.pc = "done" /\ legacy.run = runs

(***************************************************************************)
(* C36. The batch diff is a pure optimisation of the per-file check: for   *)
(* a source that holds the bootstrap file, the replaced script and run(),  *)
(* started on the same database, execute the same files in the same order, *)
(* leave the same Migration Records and report the same counts.            *)
(***************************************************************************)
C36_SameAsLegacy ==
    BothOver =>
        /\ Executions = legacy.log
        /\ rows = legacy.rows
        /\ result = legacy.result

\* C36 where every batch query was answered: the two programs agree
C36_NoQueryFailure == QueriesAnswered => C36_SameAsLegacy

\* both programs skipped one file, executed another and stopped at a third
C36_Agree ==
    /\ BothOver
    /\ QueriesAnswered
    /\ runs = 2
    /\ Len(legacy.log) >= 1
    /\ legacy.exitCode = 1
    /\ legacy.rows # atStart.rows


(***************************************************************************)
(* AdapterFactory.detectType and create together: the type detected from   *)
(* a connection string is handed to create with that string.  Strings are  *)
(* their UTF-16 code units, which is what startsWith looks at.             *)
(***************************************************************************)
PostgresqlScheme == <<112, 111, 115, 116, 103, 114, 101, 115, 113, 108, 58, 47, 47>>
PostgresScheme == <<112, 111, 115, 116, 103, 114, 101, 115, 58, 47, 47>>
MysqlScheme == <<109, 121, 115, 113, 108, 58, 47, 47>>
MongodbScheme == <<109, 111, 110, 103, 111, 100, 98, 58, 47, 47>>
MongodbSrvScheme == <<109, 111, 110, 103, 111, 100, 98, 43, 115, 114, 118, 58, 47, 47>>

\* 'postgres', 'mysql', 'mongodb'
Postgres == <<112, 111, 115, 116, 103, 114, 101, 115>>
Mysql == <<109, 121, 115, 113, 108>>
Mongodb == <<109, 111, 110, 103, 111, 100, 98>>

\* detectType throws: there is no type
NoType == <<>>

\* connection strings: each scheme before the host 'h', 'sqlite://h',
\* 'POSTGRES://h', 'supabase' and the empty string
Urls ==
    {scheme \o <<104>> : scheme \in {PostgresqlScheme, PostgresScheme,
                                      MysqlScheme, MongodbScheme,
                                      MongodbSrvScheme}}
      \cup {<<115, 113, 108, 105, 116, 101, 58, 47, 47, 104>>,
            <<80, 79, 83, 84, 71, 82, 69, 83, 58, 47, 47, 104>>,
            Supabase, <<>>}

\* AdapterFactory.detectType
detectType(connectionString) ==
    IF \/ StartsWith(connectionString, PostgresqlScheme)
       \/ StartsWith(connectionString, PostgresScheme)
    THEN Postgres
    ELSE IF StartsWith(connectionString, MysqlScheme)
    THEN Mysql
    ELSE IF \/ StartsWith(connectionString, MongodbScheme)
            \/ StartsWith(connectionString, MongodbSrvScheme)
    THEN Mongodb
    ELSE NoType

\* AdapterFactory.create(AdapterFactory.detectType(cs), cs)
DetectAndCreate ==
    /\ pc = "idle"
    /\ Len(creations) < MaxCreates
    /\ \E connectionString \in Urls :
         IF detectType(connectionString) = NoType
         THEN /\ pc' = "threw"
              /\ error' = [message |-> "Could not detect database type",
                           migration |-> NoFile]
              /\ UNCHANGED <<creations, exitCode>>
         ELSE /\ creations' = Append(creations,
                   [folderName |-> detectType(connectionString),
                    connectionString |-> connectionString,
                    adapter |-> create(detectType(connectionString),
                                       connectionString),
                    detected |-> TRUE])
              /\ IF create(detectType(connectionString), connectionString)
                      = NoAdapter
                 THEN errorHandler
                 ELSE UNCHANGED <<pc, exitCode>>
              /\ UNCHANGED error
    /\ UNCHANGED <<srcVars, operator, runners, legacy, dbVars, sql, opened, tx,
                   localVars, idx, result, stderr, histVars, runLog,
                   examined, skippedFiles, faults, failedFile, calls>>

NextDetect ==
    \/ FactoryCreate
    \/ DetectAndCreate

SpecDetect == InitFactory /\ [][NextDetect]_vars

(***************************************************************************)
(* C37. Factory self-consistency: whenever detectType returns a type for a *)
(* connection string, create called with that type and that string gives   *)
(* an adapter; it does not fail on an unsupported type.                    *)
(***************************************************************************)
C37_DetectedTypeSupported ==
    \A i \in DOMAIN creations :
        "detected" \in DOMAIN creations[i] =>
            /\ creations[i].adapter # NoAdapter
            /\ pc # "exited"

=============================================================================
